---- MODULE Spec2Model ----
(***************************************************************************)
(* Tribute Lands NPC database: the Flask request handlers of app.py over   *)
(* the SQLite tables, the in-memory reference catalogues, and the          *)
(* client-side build audit.                                                *)
(***************************************************************************)
EXTENDS Integers, Sequences, FiniteSets, TLC

VARIABLES
    npcs,       \* table npcs: id -> row (a record of column values)
    db,         \* child tables: table name -> set of rows
    seq,        \* sqlite_sequence: table name -> last AUTOINCREMENT id handed out
    resp,       \* the last HTTP exchange: request and response
    cat,        \* the in-memory catalogues of the equipment/hindrances/edges/powers packages
    audit,      \* the client's last auditCharacter call: its input and its findings
    files,      \* the application directory: the files of portraits/ and of
                \* backups/ by name, the clock that stamps the backups, and the
                \* schema of the database file (its tables, and whether npcs
                \* has the portrait_path column)
    page        \* the page in the browser: currentNPC, the NPC the detail panel
                \* shows, and the requests of selectNPC and deleteNPC that have
                \* been sent and whose `await` has not been resumed yet

vars == <<npcs, db, seq, resp, cat, audit, files, page>>

\* the page as it is loaded: no NPC selected (currentNPC = null, the panel in
\* its empty state: both written 0), nothing in flight.  `calls` counts the
\* selectNPC calls, `latest` is the id of the most recent one (0 once a
\* deleteNPC has completed after it), `deleted` the ids whose deleteNPC has
\* completed.
NoPage == [currentNPC |-> 0, panel |-> 0, calls |-> 0, latest |-> 0,
           deleted |-> {}, flight |-> {}]

(***************************************************************************)
(* JSON scalars as the handlers receive them from request.json.  A value   *)
(* keeps its JSON type, so that what SQLite stores and hands back can      *)
(* differ from what was sent.                                              *)
(***************************************************************************)
VStr(s) == [t |-> "str", s |-> s, n |-> 0]
VInt(n) == [t |-> "int", s |-> "", n |-> n]
VBool(b) == [t |-> "bool", s |-> "", n |-> IF b THEN 1 ELSE 0]
ListV == [t |-> "list", s |-> "", n |-> 0]
Null == [t |-> "null", s |-> "", n |-> 0]

\* body.get(k, default) of a Python dict
Get(body, k, default) == IF k \in DOMAIN body THEN body[k] ELSE default

\* Texts that SQLite reads as an integer literal, with the integer each denotes.
NumericText == {"0", "1", "2", "3", "4", "5", "6", "8"}
NumOf(s) == CASE s = "0" -> 0 [] s = "1" -> 1 [] s = "2" -> 2 [] s = "3" -> 3
              [] s = "4" -> 4 [] s = "5" -> 5 [] s = "6" -> 6 [] s = "8" -> 8
TextOf(n) == CASE n = 0 -> "0" [] n = 1 -> "1" [] n = 2 -> "2" [] n = 3 -> "3" [] n = 4 -> "4"
               [] n = 5 -> "5" [] n = 6 -> "6" [] n = 8 -> "8" [] OTHER -> "n"

\* sqlite3 parameter binding: a Python bool is bound as the integer 1 or 0;
\* a list (or dict) has no binding and raises InterfaceError.
Bindable(v) == v.t # "list"
Bind(v) == IF v.t = "bool" THEN VInt(v.n) ELSE v

\* Column affinity of the declared type: TEXT turns a number into its decimal
\* text; INTEGER and REAL turn a well-formed numeric text into the number.
\* (A REAL column hands 2 back as 2.0, the same JSON number.)
Affinity(type, v) ==
    CASE type = "TEXT" /\ v.t = "int" -> VStr(TextOf(v.n))
      [] type \in {"INTEGER", "REAL"} /\ v.t = "str" /\ v.s \in NumericText -> VInt(NumOf(v.s))
      [] OTHER -> v

\* The value a column of the declared type holds after the statement binds v.
Stored(type, v) == Affinity(type, Bind(v))

(***************************************************************************)
(* The schema.  npc_armor, npc_gear, npc_hindrances, npc_edges and         *)
(* npc_powers are declared by init_db_if_needed; npcs, npc_skills and      *)
(* npc_weapons come from schema.sql, which the handlers' INSERT statements *)
(* and the data model describe.                                            *)
(***************************************************************************)
CodeColType ==
    [npc_armor |-> [name |-> "TEXT", protection |-> "INTEGER", area_protected |-> "TEXT",
                    min_strength |-> "TEXT", weight |-> "REAL", cost |-> "TEXT", notes |-> "TEXT"],
     npc_gear |-> [name |-> "TEXT", quantity |-> "INTEGER", weight |-> "REAL",
                   cost |-> "TEXT", notes |-> "TEXT"],
     npc_hindrances |-> [name |-> "TEXT", severity |-> "TEXT", source |-> "TEXT", notes |-> "TEXT"],
     npc_edges |-> [name |-> "TEXT", source |-> "TEXT", notes |-> "TEXT"],
     npc_powers |-> [name |-> "TEXT", power_points |-> "INTEGER", range |-> "TEXT",
                     duration |-> "TEXT", trapping |-> "TEXT", source |-> "TEXT", notes |-> "TEXT"]]

SchemaSqlColType ==
    [npc_skills |-> [name |-> "TEXT", die |-> "INTEGER"],
     npc_weapons |-> [name |-> "TEXT", damage_str |-> "TEXT", damagedice |-> "TEXT",
                      armor_piercing |-> "INTEGER", trait_type |-> "TEXT", range |-> "TEXT",
                      reach |-> "INTEGER", notes |-> "TEXT"]]

ColType == CodeColType @@ SchemaSqlColType

Tables == DOMAIN ColType

\* NOT NULL columns (npc_id is NOT NULL and REFERENCES npcs(id) in every table).
CodeNotNull ==
    [npc_armor |-> {"name", "protection"}, npc_gear |-> {"name"},
     npc_hindrances |-> {"name", "severity"}, npc_edges |-> {"name"}, npc_powers |-> {"name"}]

SchemaSqlNotNull == [npc_skills |-> {"name", "die"}, npc_weapons |-> {"name"}]

NotNull == CodeNotNull @@ SchemaSqlNotNull

\* ON DELETE CASCADE on the npc_id reference of each child table.
CodeCascade == DOMAIN CodeColType

SchemaSqlCascade == DOMAIN SchemaSqlColType

\* a connection opened without the pragma: SQLite's default leaves foreign keys off
foreign_keys_default == FALSE

\* PRAGMA foreign_keys=ON, set by get_db on every connection it opens.
foreign_keys == TRUE

\* The columns of npcs the model follows, with their declared types.
NpcColType ==
    [name |-> "TEXT", tier |-> "TEXT", quote |-> "TEXT", agility |-> "INTEGER",
     vigor |-> "INTEGER", pace |-> "INTEGER", parry |-> "INTEGER", toughness |-> "INTEGER",
     toughness_armor |-> "INTEGER", power_points |-> "INTEGER", edges_json |-> "TEXT",
     hindrances_json |-> "TEXT", gear_json |-> "TEXT", powers_json |-> "TEXT",
     tactics |-> "TEXT", stat_block_complete |-> "INTEGER", fg_export_ready |-> "INTEGER",
     portrait_path |-> "TEXT"]

NpcNotNull == {"name"}

NpcDefault ==
    [name |-> Null, tier |-> VStr("Extra"), quote |-> Null, agility |-> VInt(0),
     vigor |-> VInt(0), pace |-> VInt(6), parry |-> VInt(2), toughness |-> VInt(5),
     toughness_armor |-> VInt(0), power_points |-> VInt(0), edges_json |-> VStr("[]"),
     hindrances_json |-> VStr("[]"), gear_json |-> VStr("[]"), powers_json |-> VStr("[]"),
     tactics |-> Null, stat_block_complete |-> VInt(0), fg_export_ready |-> VInt(0),
     portrait_path |-> Null]

\* rows of table t that belong to NPC id
RowsOf(t, id) == {r \in db[t] : r.npc_id = id}

\* the row of table t with primary key rid, as a set (empty when there is none)
RowById(t, rid) == {r \in db[t] : r.id = rid}

(***************************************************************************)
(* Responses.  op names the handler, id the NPC id and rid the child row   *)
(* id of the URL, req the JSON body, out the JSON payload of a 200, conn   *)
(* the state of the handler's SQLite connection when it responds.          *)
(***************************************************************************)
\* The connection a handler opened, as it is when the handler responds:
\* "none" when the handler opens none (the catalogue lookups, a refused
\* upload), "open" when the path taken has no conn.close() (the 404 returns
\* of api_get_npc, api_statblock and api_fg_xml, every return of
\* api_migration_preview, and an exception raised between get_db() and
\* conn.close()), "closed" otherwise.  A command of the companion script
\* ends its process and with it the connection.
ConnectionAt(op, status) ==
    IF \/ op \in {"none", "create_backup", "restore_backup", "delete_backup", "catalogue_weapons", "catalogue_armor", "catalogue_gear",
                  "catalogue_hindrances", "catalogue_edges", "catalogue_powers",
                  "get_weapons", "get_armor", "get_gear", "get_hindrances", "get_edges",
                  "get_powers"}
       \/ (op = "upload_portrait" /\ status = 400)
    THEN "none"
    ELSE IF \/ op \in {"get_npc", "statblock", "statblock_text", "fgxml", "fgxml_text"} /\ status = 404
            \/ op = "migration_preview"
            \/ status = 500 /\ op \notin {"cli_add_skill", "edit_npc", "add_npc_from_dict",
                                        "add_npc_interactive"}
    THEN "open"
    ELSE "closed"

Response(op, status, id, rid, req, out) ==
    [op |-> op, status |-> status, id |-> id, rid |-> rid, req |-> req, out |-> out,
     conn |-> ConnectionAt(op, status)]

\* An exception escapes the handler: Flask answers 500 and the connection,
\* never committed, leaves the database as it was.
Fails(op, id, rid, req) ==
    /\ resp' = Response(op, 500, id, rid, req, <<>>)
    /\ UNCHANGED <<npcs, db, seq, cat, audit, files, page>>

Max(S) == CHOOSE x \in S : \A y \in S : y <= x

\* ORDER BY: byte order of the texts the model uses (NULL sorts first).
Collation ==
    << "", "0", "1", "2", "5", "6", "Ann", "Arcane Sword", "Axe", "Block", "Bob", "Bolt",
       "Brawny", "Connections", "Cursed", "Custom", "Extra", "Fighting", "Fleet-Footed", "Grounded",
       "Lowborn", "Mail", "Major", "Mean", "Melee", "Minor", "Notice", "Quirk (hums)", "R&D", "Rope",
       "Severe", "Str+d6", "[]", "crew", "d6", "dirty fighter", "grounded", "oops", "x" >>
Rank(v) == IF v.t = "null" THEN 0
           ELSE IF v.t = "int" THEN 1
           ELSE 1 + (CHOOSE i \in 1..Len(Collation) : Collation[i] = v.s)

\* the rows of S as the list a SELECT returns: Before is the ORDER BY, rowid
\* order decides between rows it leaves equal and is the order without one
Select(S, Before(_, _)) ==
    CHOOSE q \in [1..Cardinality(S) -> S] :
        \A i, j \in 1..Cardinality(S) :
            i < j => \/ Before(q[i], q[j])
                     \/ (~Before(q[j], q[i]) /\ q[i].id < q[j].id)
ByRowid(a, b) == FALSE
ByName(a, b) == Rank(a.name) < Rank(b.name)
BySeverityDescName(a, b) ==
    \/ Rank(a.severity) > Rank(b.severity)
    \/ (Rank(a.severity) = Rank(b.severity) /\ Rank(a.name) < Rank(b.name))

(***************************************************************************)
(* json.loads of the texts held in the *_json columns.  A legacy item is   *)
(* kept as its characters, which the migration's regular expressions read. *)
(***************************************************************************)
JsonTexts ==
    [e0 |-> [text |-> "[]", list |-> <<>>],
     e1 |-> [text |-> "[\"Block\"]", list |-> << "Block" >>],
     e2 |-> [text |-> "[\"Connections (inspectors)\",\"dirty fighter\"]",
             list |-> << "Connections (inspectors)", "dirty fighter" >>],
     h1 |-> [text |-> "[\"Cursed (Major - crew)\",\"grounded\"]",
             list |-> << "Cursed (Major - crew)", "grounded" >>],
     h2 |-> [text |-> "[\"Cursed\",\"Cursed (Major)\",\"Quirk (hums)\"]",
             list |-> << "Cursed", "Cursed (Major)", "Quirk (hums)" >>],
     p1 |-> [text |-> "[\"Arcane Sword\"]", list |-> << "Arcane Sword" >>],
     e3 |-> [text |-> "[\"Brawny\",\"Fleet-Footed\"]", list |-> << "Brawny", "Fleet-Footed" >>],
     g3 |-> [text |-> "[\"Rope\",\"Axe\",\"Mail\"]", list |-> << "Rope", "Axe", "Mail" >>],
     g12 |-> [text |-> "[\"Rope\", \"Axe\"]", list |-> << "Rope", "Axe" >>],
     g13 |-> [text |-> "[\"Rope\", \"Mail\"]", list |-> << "Rope", "Mail" >>],
     g23 |-> [text |-> "[\"Axe\", \"Mail\"]", list |-> << "Axe", "Mail" >>],
     g1 |-> [text |-> "[\"Rope\"]", list |-> << "Rope" >>],
     g2 |-> [text |-> "[\"Axe\"]", list |-> << "Axe" >>],
     g_3 |-> [text |-> "[\"Mail\"]", list |-> << "Mail" >>]]

\* json.loads(value or '[]'): a list of items, a bare number, or JSONDecodeError
JsonLoads(v) ==
    IF v.t = "null" \/ v.s = "" THEN [kind |-> "list", list |-> <<>>]
    ELSE IF \E k \in DOMAIN JsonTexts : JsonTexts[k].text = v.s
         THEN [kind |-> "list",
               list |-> JsonTexts[CHOOSE k \in DOMAIN JsonTexts : JsonTexts[k].text = v.s].list]
    ELSE IF v.s \in NumericText THEN [kind |-> "number", list |-> <<>>]
    ELSE [kind |-> "error", list |-> <<>>]

(***************************************************************************)
(* NPC handlers                                                            *)
(***************************************************************************)
\* `fields` of api_create_npc, for the columns the model follows
NpcWhitelist == DOMAIN NpcColType \ {"portrait_path"}

\* lastrowid of an INSERT into an AUTOINCREMENT table
NextRowid(t, ids) == Max({seq[t]} \cup ids) + 1

api_create_npc(data) ==
    LET present == [k \in DOMAIN data \cap NpcWhitelist |-> data[k]]
        row == [c \in DOMAIN NpcColType |->
                   IF c \in DOMAIN present THEN Stored(NpcColType[c], present[c])
                   ELSE NpcDefault[c]]
        npc_id == NextRowid("npcs", DOMAIN npcs)
    IN  IF \/ DOMAIN present = {}
           \/ \E k \in DOMAIN present : ~Bindable(present[k])
           \/ \E c \in NpcNotNull : row[c].t = "null"
        THEN Fails("create_npc", 0, 0, data)
        ELSE /\ npcs' = npcs @@ (npc_id :> row)
             /\ seq' = [seq EXCEPT !.npcs = npc_id]
             /\ resp' = Response("create_npc", 200, npc_id, 0, data, <<>>)
             /\ UNCHANGED <<db, cat, audit, files, page>>

\* the dict api_get_npc builds for an existing NPC
NpcDetail(npc_id) ==
    [npc |-> npcs[npc_id],
     edges |-> JsonLoads(npcs[npc_id].edges_json),
     hindrances |-> JsonLoads(npcs[npc_id].hindrances_json),
     gear |-> JsonLoads(npcs[npc_id].gear_json),
     powers |-> JsonLoads(npcs[npc_id].powers_json),
     skills |-> Select(RowsOf("npc_skills", npc_id), ByName),
     weapons |-> Select(RowsOf("npc_weapons", npc_id), ByRowid),
     armor |-> Select(RowsOf("npc_armor", npc_id), ByRowid),
     gear_items |-> Select(RowsOf("npc_gear", npc_id), ByName),
     hindrance_items |-> Select(RowsOf("npc_hindrances", npc_id), BySeverityDescName),
     edge_items |-> Select(RowsOf("npc_edges", npc_id), ByName),
     power_items |-> Select(RowsOf("npc_powers", npc_id), ByName)]

\* what GET /api/npcs/<id> answers in the current state
GetNpc(npc_id) ==
    IF npc_id \notin DOMAIN npcs
    THEN Response("get_npc", 404, npc_id, 0, <<>>, <<>>)
    ELSE IF \E f \in {"edges_json", "hindrances_json", "gear_json", "powers_json"} :
                JsonLoads(npcs[npc_id][f]).kind = "error"
    THEN Response("get_npc", 500, npc_id, 0, <<>>, <<>>)
    ELSE Response("get_npc", 200, npc_id, 0, <<>>, NpcDetail(npc_id))

api_get_npc(npc_id) ==
    /\ resp' = GetNpc(npc_id)
    /\ UNCHANGED <<npcs, db, seq, cat, audit, files, page>>

\* UPDATE npcs SET <every key of the body> = ? WHERE id = ?
api_update_npc(npc_id, data) ==
    LET cols == DOMAIN data \ {"id"}
        hit == npc_id \in DOMAIN npcs
        row == [c \in DOMAIN NpcColType |->
                   IF c \in cols THEN Stored(NpcColType[c], data[c]) ELSE npcs[npc_id][c]]
        new_id == IF "id" \in DOMAIN data THEN Stored("INTEGER", data.id) ELSE VInt(npc_id)
        rekey == hit /\ new_id # VInt(npc_id)
    IN  IF \/ DOMAIN data = {}
           \/ \E k \in cols : k \notin DOMAIN NpcColType
           \/ \E k \in DOMAIN data : ~Bindable(data[k])
           \/ hit /\ \E c \in NpcNotNull : row[c].t = "null"
           \/ rekey /\ new_id.t # "int"
           \/ rekey /\ new_id.n \in DOMAIN npcs
           \/ rekey /\ foreign_keys /\ \E t \in Tables : RowsOf(t, npc_id) # {}
        THEN Fails("update_npc", npc_id, 0, data)
        ELSE /\ npcs' = IF hit
                        THEN [i \in (DOMAIN npcs \ {npc_id}) \cup {new_id.n} |->
                                 IF i = new_id.n THEN row ELSE npcs[i]]
                        ELSE npcs
             /\ resp' = Response("update_npc", 200, npc_id, 0, data, <<>>)
             /\ UNCHANGED <<db, seq, cat, audit, files, page>>

\* DELETE FROM npcs WHERE id = ?, with the child rows the foreign keys cascade to
Cascade == CodeCascade \cup SchemaSqlCascade

api_delete_npc(npc_id) ==
    /\ npcs' = [i \in DOMAIN npcs \ {npc_id} |-> npcs[i]]
    /\ db' = [t \in Tables |->
                 IF foreign_keys /\ t \in Cascade THEN db[t] \ RowsOf(t, npc_id) ELSE db[t]]
    /\ resp' = Response("delete_npc", 200, npc_id, 0, <<>>, <<>>)
    /\ UNCHANGED <<seq, cat, audit, files, page>>

\* `json.loads(npc[f]) if npc[f] else []` followed by `if items: ', '.join(items)`
\* as both exporters do it: the items of the line, no line, or an exception
LegacyLine(v) ==
    LET j == JsonLoads(v)
    IN  IF v.t = "null" \/ v.s = "" THEN [kind |-> "list", list |-> <<>>]
        ELSE IF j.kind = "number" /\ NumOf(v.s) = 0 THEN [kind |-> "list", list |-> <<>>]
        ELSE IF j.kind = "number" THEN [kind |-> "error", list |-> <<>>]
        ELSE j

\* the lines of api_statblock that come from the managed tables when they
\* hold rows of the NPC, and from the legacy JSON columns otherwise
StatblockLine(managed, legacy) ==
    IF managed # <<>> THEN [from |-> "managed", items |-> managed]
    ELSE [from |-> "legacy", items |-> legacy.list]

Statblock(npc_id) ==
    LET npc == npcs[npc_id]
        hasPP == npc.power_points.t = "int" /\ npc.power_points.n > 0
        gear_items == Select(RowsOf("npc_gear", npc_id), ByName)
        managed_powers == Select(RowsOf("npc_powers", npc_id), ByName)
        legacyRead == {"hindrances_json", "edges_json"}
                        \cup (IF gear_items = <<>> THEN {"gear_json"} ELSE {})
                        \cup (IF hasPP /\ managed_powers = <<>> THEN {"powers_json"} ELSE {})
    IN  IF \E f \in legacyRead : LegacyLine(npc[f]).kind = "error"
        THEN Response("statblock", 500, npc_id, 0, <<>>, <<>>)
        ELSE Response("statblock", 200, npc_id, 0, <<>>,
                 [name |-> npc.name,
                  hindrances |-> StatblockLine(
                      Select(RowsOf("npc_hindrances", npc_id), BySeverityDescName),
                      LegacyLine(npc.hindrances_json)),
                  edges |-> StatblockLine(Select(RowsOf("npc_edges", npc_id), ByName),
                                          LegacyLine(npc.edges_json)),
                  gear |-> StatblockLine(gear_items, LegacyLine(npc.gear_json)),
                  armour |-> Select(RowsOf("npc_armor", npc_id), ByRowid),
                  powers |-> IF hasPP
                             THEN StatblockLine(managed_powers, LegacyLine(npc.powers_json))
                             ELSE [from |-> "none", items |-> <<>>],
                  tactics |-> npc.tactics])

api_statblock(npc_id) ==
    /\ resp' = IF npc_id \notin DOMAIN npcs
               THEN Response("statblock", 404, npc_id, 0, <<>>, <<>>)
               ELSE Statblock(npc_id)
    /\ UNCHANGED <<npcs, db, seq, cat, audit, files, page>>

\* the elements of npc_to_fg_xml that list the NPC's traits: they are read
\* from the legacy JSON columns only
npc_to_fg_xml(npc_id) ==
    LET npc == npcs[npc_id]
        hasPP == npc.power_points.t = "int" /\ npc.power_points.n > 0
        legacyRead == {"edges_json", "hindrances_json", "gear_json"}
                        \cup (IF hasPP THEN {"powers_json"} ELSE {})
    IN  IF \E f \in legacyRead : LegacyLine(npc[f]).kind = "error"
        THEN Response("fgxml", 500, npc_id, 0, <<>>, <<>>)
        ELSE Response("fgxml", 200, npc_id, 0, <<>>,
                 [name |-> npc.name,
                  edges |-> LegacyLine(npc.edges_json).list,
                  hindrances |-> LegacyLine(npc.hindrances_json).list,
                  gear |-> LegacyLine(npc.gear_json).list,
                  skills |-> Select(RowsOf("npc_skills", npc_id), ByName),
                  weaponlist |-> Select(RowsOf("npc_weapons", npc_id), ByRowid),
                  powers |-> IF hasPP THEN LegacyLine(npc.powers_json).list ELSE <<>>])

api_fg_xml(npc_id) ==
    /\ resp' = IF npc_id \notin DOMAIN npcs
               THEN Response("fgxml", 404, npc_id, 0, <<>>, <<>>)
               ELSE npc_to_fg_xml(npc_id)
    /\ UNCHANGED <<npcs, db, seq, cat, audit, files, page>>

(***************************************************************************)
(* Child record handlers.  Each add handler reads its required keys with   *)
(* d['key'] (KeyError when absent) and the others with d.get(key, default) *)
(* and runs one INSERT; each delete handler runs one DELETE.               *)
(***************************************************************************)
Required ==
    [npc_skills |-> {"name", "die"}, npc_weapons |-> {"name", "damage_str", "damagedice"},
     npc_armor |-> {"name"}, npc_gear |-> {"name"}, npc_hindrances |-> {"name", "severity"},
     npc_edges |-> {"name"}, npc_powers |-> {"name"}]

GetDefault ==
    [npc_skills |-> <<>>,
     npc_weapons |-> [armor_piercing |-> VInt(0), trait_type |-> VStr("Melee"), range |-> Null,
                      reach |-> VInt(0), notes |-> Null],
     npc_armor |-> [protection |-> VInt(0), area_protected |-> Null, min_strength |-> Null,
                    weight |-> VInt(0), cost |-> Null, notes |-> Null],
     npc_gear |-> [quantity |-> VInt(1), weight |-> VInt(0), cost |-> Null, notes |-> Null],
     npc_hindrances |-> [source |-> Null, notes |-> Null],
     npc_edges |-> [source |-> Null, notes |-> Null],
     npc_powers |-> [power_points |-> VInt(0), range |-> Null, duration |-> Null,
                     trapping |-> Null, source |-> Null, notes |-> Null]]

\* the values the handler binds: one per column of its INSERT
Bound(t, d) ==
    [c \in DOMAIN ColType[t] |-> IF c \in Required[t] THEN d[c] ELSE Get(d, c, GetDefault[t][c])]

\* the row an INSERT of the bound values vals makes
NewRow(t, rid, npc_id, vals) ==
    [c \in {"id", "npc_id"} \cup DOMAIN ColType[t] |->
        IF c = "id" THEN rid
        ELSE IF c = "npc_id" THEN npc_id
        ELSE Stored(ColType[t][c], vals[c])]

\* the same INSERT on a table whose npc_id column carries no REFERENCES clause
InsertRefusedUnreferenced(t, npc_id, vals) ==
    \/ \E c \in DOMAIN vals : ~Bindable(vals[c])
    \/ \E c \in NotNull[t] : Bind(vals[c]).t = "null"

\* whether the INSERT of vals for npc_id is refused: a value sqlite3 cannot
\* bind, a NOT NULL column left NULL, or a parent row the foreign key misses
InsertRefused(t, npc_id, vals) ==
    \/ \E c \in DOMAIN vals : ~Bindable(vals[c])
    \/ \E c \in NotNull[t] : Bind(vals[c]).t = "null"
    \/ foreign_keys /\ npc_id \notin DOMAIN npcs

\* rows an INSERT OR REPLACE removes: npc_skills is UNIQUE(npc_id, name)
Replaced(t, npc_id, vals) ==
    IF t = "npc_skills"
    THEN {r \in db[t] : r.npc_id = npc_id /\ r.name = Stored("TEXT", vals.name)}
    ELSE {}

AddChild(op, t, npc_id, d) ==
    IF ~(Required[t] \subseteq DOMAIN d) \/ InsertRefused(t, npc_id, Bound(t, d))
    THEN Fails(op, npc_id, 0, d)
    ELSE LET rid == NextRowid(t, {r.id : r \in db[t]})
         IN  /\ db' = [db EXCEPT ![t] = (@ \ Replaced(t, npc_id, Bound(t, d)))
                                         \cup {NewRow(t, rid, npc_id, Bound(t, d))}]
             /\ seq' = [seq EXCEPT ![t] = rid]
             /\ resp' = Response(op, 200, npc_id, rid, d, <<>>)
             /\ UNCHANGED <<npcs, cat, audit, files, page>>

api_add_skill(npc_id, d) == AddChild("add_skill", "npc_skills", npc_id, d)
api_add_weapon(npc_id, d) == AddChild("add_weapon", "npc_weapons", npc_id, d)
api_add_armor(npc_id, d) == AddChild("add_armor", "npc_armor", npc_id, d)
api_add_gear(npc_id, d) == AddChild("add_gear", "npc_gear", npc_id, d)
api_add_npc_hindrance(npc_id, d) == AddChild("add_hindrance", "npc_hindrances", npc_id, d)
api_add_npc_edge(npc_id, d) == AddChild("add_edge", "npc_edges", npc_id, d)
api_add_npc_power(npc_id, d) == AddChild("add_power", "npc_powers", npc_id, d)

\* what the list endpoint of table t answers for npc_id: SELECT * FROM t
\* WHERE npc_id = ?, with ORDER BY name for skills, armor and gear
ChildList(t, npc_id) ==
    IF t \in {"npc_skills", "npc_armor", "npc_gear"}
    THEN Select(RowsOf(t, npc_id), ByName)
    ELSE Select(RowsOf(t, npc_id), ByRowid)

ListChild(op, t, npc_id) ==
    /\ resp' = Response(op, 200, npc_id, 0, <<>>, ChildList(t, npc_id))
    /\ UNCHANGED <<npcs, db, seq, cat, audit, files, page>>

api_get_skills(npc_id) == ListChild("list_skills", "npc_skills", npc_id)
api_get_weapons(npc_id) == ListChild("list_weapons", "npc_weapons", npc_id)
api_get_armor(npc_id) == ListChild("list_armor", "npc_armor", npc_id)
api_get_gear(npc_id) == ListChild("list_gear", "npc_gear", npc_id)
api_get_npc_hindrances(npc_id) == ListChild("list_hindrances", "npc_hindrances", npc_id)
api_get_npc_edges(npc_id) == ListChild("list_edges", "npc_edges", npc_id)
api_get_npc_powers(npc_id) == ListChild("list_powers", "npc_powers", npc_id)

\* DELETE FROM t WHERE id = ?
DeleteById(op, t, rid) ==
    /\ db' = [db EXCEPT ![t] = @ \ RowById(t, rid)]
    /\ resp' = Response(op, 200, 0, rid, <<>>, <<>>)
    /\ UNCHANGED <<npcs, seq, cat, audit, files, page>>

\* the delete without its `AND npc_id = ?`
DeleteIgnoringNpc(op, t, npc_id, rid) ==
    /\ db' = [db EXCEPT ![t] = @ \ RowById(t, rid)]
    /\ resp' = Response(op, 200, npc_id, rid, <<>>, <<>>)
    /\ UNCHANGED <<npcs, seq, cat, audit, files, page>>

\* DELETE FROM t WHERE id = ? AND npc_id = ?
DeleteByIdOfNpc(op, t, npc_id, rid) ==
    /\ db' = [db EXCEPT ![t] = @ \ {r \in RowById(t, rid) : r.npc_id = npc_id}]
    /\ resp' = Response(op, 200, npc_id, rid, <<>>, <<>>)
    /\ UNCHANGED <<npcs, seq, cat, audit, files, page>>

api_delete_skill(skill_id) == DeleteById("delete_skill", "npc_skills", skill_id)
api_delete_weapon(weapon_id) == DeleteById("delete_weapon", "npc_weapons", weapon_id)
api_delete_armor(armor_id) == DeleteById("delete_armor", "npc_armor", armor_id)
api_delete_gear(gear_id) == DeleteById("delete_gear", "npc_gear", gear_id)
api_delete_npc_hindrance(npc_id, hind_id) ==
    DeleteByIdOfNpc("delete_hindrance", "npc_hindrances", npc_id, hind_id)
api_delete_npc_edge(npc_id, edge_id) ==
    DeleteByIdOfNpc("delete_edge", "npc_edges", npc_id, edge_id)
api_delete_npc_power(npc_id, power_id) ==
    DeleteByIdOfNpc("delete_power", "npc_powers", npc_id, power_id)

(***************************************************************************)
(* The browser's character audit: selectNPC fetches the NPC and            *)
(* renderNPCDetail runs auditCharacter on what the server answered.        *)
(***************************************************************************)
\* String.prototype.includes
Includes(s, sub) == \E i \in 0..(Len(s) - Len(sub)) : SubSeq(s, i + 1, i + Len(sub)) = sub

\* a JSON value in arithmetic and in `value || 0`
Num(v) == IF v.t = "int" THEN v.n ELSE 0

\* the other edge list of the page, that of buildParryPopover: managed names and legacy strings together
popoverEdges(n) ==
    [i \in DOMAIN n.edge_items |-> n.edge_items[i].name.s] \o n.edges.list

\* edgesLegacy: the names of the managed edges when there are any, the
\* legacy edge strings otherwise
edgesLegacy(n) ==
    IF n.edge_items # <<>>
    THEN [i \in DOMAIN n.edge_items |-> n.edge_items[i].name.s]
    ELSE n.edges.list

hasEdge(edges, word) == \E i \in DOMAIN edges : Includes(edges[i], word)

\* fDie: the die of the first skill named Fighting, 0 without one
fDie(n) ==
    LET hits == {i \in DOMAIN n.skills : n.skills[i].name = VStr("Fighting")}
    IN  IF hits = {} THEN VInt(0) ELSE n.skills[CHOOSE i \in hits : \A j \in hits : i <= j].die

expPace == 6
expParry(n) == IF fDie(n).t = "int" /\ fDie(n).n > 0 THEN 2 + (fDie(n).n \div 2) ELSE 2
\* auditCharacter with the armour bonus left out of the expected Toughness
expToughUnarmoured(n) == 2 + (Num(n.npc.vigor) \div 2)

expTough(n) == 2 + (Num(n.npc.vigor) \div 2) + Num(n.npc.toughness_armor)
totalArmProt(n) == Max({0} \cup {Num(n.armor[i].protection) : i \in DOMAIN n.armor})

Finding(level, stat) == [level |-> level, category |-> "derived", stat |-> stat]

\* section 1 of auditCharacter, the derived statistics: one finding each for
\* Pace, Parry and Toughness, and a warning when the armour does not add up
auditCharacter(n) ==
    LET edges == edgesLegacy(n)
        pace == n.npc.pace
        parry == n.npc.parry
        tough == n.npc.toughness
    IN  << IF pace # VInt(expPace)
           THEN IF hasEdge(edges, "Fleet") /\ pace = VInt(8)
                THEN Finding("info", "Pace") ELSE Finding("warn", "Pace")
           ELSE Finding("pass", "Pace"),
           IF parry # VInt(expParry(n))
           THEN IF hasEdge(edges, "Block") /\ parry = VInt(expParry(n) + 1)
                THEN Finding("info", "Parry") ELSE Finding("warn", "Parry")
           ELSE Finding("pass", "Parry"),
           IF tough # VInt(expTough(n))
           THEN IF hasEdge(edges, "Brawny") /\ tough = VInt(expTough(n) + 1)
                THEN Finding("info", "Toughness") ELSE Finding("warn", "Toughness")
           ELSE Finding("pass", "Toughness") >>
        \o (IF totalArmProt(n) # Num(n.npc.toughness_armor)
            THEN << Finding("warn", "Armour") >> ELSE << >>)

\* selectNPC(id): GET /api/npcs/<id>, then the detail panel with its audit;
\* an answer that is no NPC leaves the panel as it was
selectNPC(id) ==
    /\ resp' = GetNpc(id)
    /\ audit' = IF GetNpc(id).status = 200
                THEN [id |-> id, n |-> NpcDetail(id), findings |-> auditCharacter(NpcDetail(id))]
                ELSE audit
    /\ UNCHANGED <<npcs, db, seq, cat, files, page>>

(***************************************************************************)
(* The reference catalogues.  Each package (equipment, hindrances, edges,  *)
(* powers) concatenates the lists of its six data modules, tagging every   *)
(* item with the module's SOURCE.  The model takes the first item of each  *)
(* module's list (two where a second severity is needed).                  *)
(***************************************************************************)
_MODULES == << "core", "fantasy_companion", "ammaria", "saltlands", "vinlands", "concordium" >>

SOURCE ==
    [core |-> "Core", fantasy_companion |-> "Fantasy Companion", ammaria |-> "Ammaria",
     saltlands |-> "Saltlands", vinlands |-> "Vinlands", concordium |-> "Concordium"]

SOURCES == [i \in DOMAIN _MODULES |-> SOURCE[_MODULES[i]]]

\* the lists of the core modules, which the packages import from core.py
CoreLists ==
    [WEAPONS |-> << [name |-> "Unarmed"] >>,
     ARMOR |-> << [name |-> "Leather"] >>,
     GEAR |-> << [name |-> "Backpack"] >>,
     HINDRANCES |-> << [name |-> "Mean", severity |-> "Minor"] >>,
     EDGES |-> << [name |-> "Block", rank |-> "Seasoned", type |-> "Combat"] >>,
     POWERS |-> << [name |-> "Bolt", rank |-> "Novice"] >>]

EquipmentLists ==
    [WEAPONS |-> [fantasy_companion |-> << [name |-> "Bastard Sword"] >>,
                  ammaria |-> << [name |-> "Repeating Crossbow"] >>,
                  saltlands |-> << [name |-> "Cutlass"] >>,
                  vinlands |-> << [name |-> "Bearded Axe"] >>,
                  concordium |-> << [name |-> "Boarding Pike"] >>],
     ARMOR |-> [fantasy_companion |-> << [name |-> "Hide Armour"] >>,
                ammaria |-> << [name |-> "Padded Jacket"] >>,
                saltlands |-> << [name |-> "Hardened Leather (Saltlands)"] >>,
                vinlands |-> << [name |-> "Furs"] >>,
                concordium |-> << [name |-> "Flight Leathers"] >>],
     GEAR |-> [fantasy_companion |-> << [name |-> "Holy Symbol"] >>,
               ammaria |-> << [name |-> "Ammarian Steel Tools"] >>,
               saltlands |-> << [name |-> "Navigator's Charts (Sound)"] >>,
               vinlands |-> << [name |-> "Thornhook (tool)"] >>,
               concordium |-> << [name |-> "Barometric Charm"] >>]]

HindranceLists ==
    [HINDRANCES |->
        [fantasy_companion |-> << [name |-> "Cursed", severity |-> "Major"] >>,
         ammaria |-> << [name |-> "Former Slave (Escaped)", severity |-> "Major"],
                        [name |-> "Collaborator's Blood", severity |-> "Minor"] >>,
         saltlands |-> << [name |-> "Code Breaker", severity |-> "Major"] >>,
         vinlands |-> << [name |-> "Oathbound", severity |-> "Major"] >>,
         concordium |-> << [name |-> "Grounded", severity |-> "Major"],
                           [name |-> "Grounded", severity |-> "Minor"] >>]]

EdgeLists ==
    [EDGES |->
        [fantasy_companion |-> << [name |-> "Dirty Fighter", rank |-> "Seasoned", type |-> "Combat"] >>,
         ammaria |-> << [name |-> "Ammarian Halberd Guard", rank |-> "Novice", type |-> "Combat"] >>,
         saltlands |-> << [name |-> "Reefborn", rank |-> "Novice", type |-> "Background"] >>,
         vinlands |-> << [name |-> "Holtscarl", rank |-> "Novice", type |-> "Background"] >>,
         concordium |-> << [name |-> "Sky-Born", rank |-> "Novice", type |-> "Background"] >>]]

PowerLists ==
    [POWERS |->
        [fantasy_companion |-> << [name |-> "Arcane Sword", pp |-> "2", rank |-> "Novice"] >>,
         ammaria |-> << [name |-> "Oath-Bind", pp |-> "3", rank |-> "Seasoned"] >>,
         saltlands |-> << [name |-> "Call Storm", pp |-> "4", rank |-> "Seasoned"] >>,
         vinlands |-> << [name |-> "Speak with Plants", pp |-> "1", rank |-> "Novice"] >>,
         concordium |-> << [name |-> "Wind Lift", pp |-> "2", rank |-> "Novice"] >>]]

\* mod.<LIST> for a module of the package that defines LIST
ModuleList(list, mod) ==
    IF mod = "core" THEN CoreLists[list]
    ELSE (EquipmentLists @@ HindranceLists @@ EdgeLists @@ PowerLists)[list][mod]

\* every item tagged with the first of SOURCES, whatever module it is from
_tag_first(items, source) ==
    [i \in DOMAIN items |->
        [k \in DOMAIN items[i] \cup {"source"} |->
            IF k = "source" THEN SOURCES[1] ELSE items[i][k]]]

\* [{**item, "source": source} for item in items]
_tag_items(items, source) ==
    [i \in DOMAIN items |->
        [k \in DOMAIN items[i] \cup {"source"} |->
            IF k = "source" THEN source ELSE items[i][k]]]

\* LIST = []; for mod in _MODULES: LIST.extend(_tag_items(mod.LIST, mod.SOURCE))
RECURSIVE Extended(_, _)
Extended(list, upto) ==
    IF upto = 0 THEN << >>
    ELSE Extended(list, upto - 1)
           \o _tag_items(ModuleList(list, _MODULES[upto]), SOURCE[_MODULES[upto]])

Catalogues == [list \in DOMAIN CoreLists |-> Extended(list, Len(_MODULES))]

\* request.args.get(key, 'All') on the query parameters sent
ArgOrAll(args, key) == Get(args, key, "All")

\* the comprehension that keeps whatever has source or is from the first of SOURCES
BySourceOrFirst(results, source) ==
    SelectSeq(results, LAMBDA w : w.source = source \/ w.source = SOURCES[1])

\* [w for w in results if w['source'] == source], and the same on other keys
BySource(results, source) == SelectSeq(results, LAMBDA w : w.source = source)
BySeverity(results, severity) == SelectSeq(results, LAMBDA h : h.severity = severity)
ByRank(results, rank) == SelectSeq(results, LAMBDA e : e.rank = rank)
ByType(results, edge_type) == SelectSeq(results, LAMBDA e : e.type = edge_type)

\* a catalogue endpoint answers with `out` and changes nothing
Answer(op, args, out) ==
    /\ resp' = Response(op, 200, 0, 0, args, out)
    /\ UNCHANGED <<npcs, db, seq, cat, audit, files, page>>

\* GET /api/catalogue/<list>?source=...
ApiCatalogue(op, list, args) ==
    Answer(op, args, IF ArgOrAll(args, "source") = "All" THEN cat[list]
                     ELSE BySource(cat[list], ArgOrAll(args, "source")))

api_catalogue_weapons(args) == ApiCatalogue("catalogue_weapons", "WEAPONS", args)
api_catalogue_armor(args) == ApiCatalogue("catalogue_armor", "ARMOR", args)
api_catalogue_gear(args) == ApiCatalogue("catalogue_gear", "GEAR", args)
api_catalogue_edges(args) == ApiCatalogue("catalogue_edges", "EDGES", args)
api_catalogue_powers(args) == ApiCatalogue("catalogue_powers", "POWERS", args)

api_catalogue_hindrances(args) ==
    LET source == ArgOrAll(args, "source")
        severity == ArgOrAll(args, "severity")
        bySource == IF source # "All" THEN BySource(cat.HINDRANCES, source) ELSE cat.HINDRANCES
    IN  Answer("catalogue_hindrances", args,
               IF severity # "All" THEN BySeverity(bySource, severity) ELSE bySource)

\* `if x and x != "All"` on an argument of a package's get_* function:
\* None and the empty string are no filter
Filters(x) == x.t # "null" /\ x.s # "" /\ x.s # "All"

\* get_weapons / get_armor / get_gear (source=None) of the equipment package
GetEquipment(op, list, source) ==
    Answer(op, [source |-> source],
           IF Filters(source) THEN BySource(cat[list], source.s) ELSE cat[list])

get_weapons(source) == GetEquipment("get_weapons", "WEAPONS", source)
get_armor(source) == GetEquipment("get_armor", "ARMOR", source)
get_gear(source) == GetEquipment("get_gear", "GEAR", source)

get_hindrances(source, severity) ==
    LET bySource == IF Filters(source) THEN BySource(cat.HINDRANCES, source.s)
                    ELSE cat.HINDRANCES
    IN  Answer("get_hindrances", [source |-> source, severity |-> severity],
               IF Filters(severity) THEN BySeverity(bySource, severity.s) ELSE bySource)

get_edges(source, rank, edge_type) ==
    LET bySource == IF Filters(source) THEN BySource(cat.EDGES, source.s) ELSE cat.EDGES
        byRank == IF Filters(rank) THEN ByRank(bySource, rank.s) ELSE bySource
    IN  Answer("get_edges", [source |-> source, rank |-> rank, edge_type |-> edge_type],
               IF Filters(edge_type) THEN ByType(byRank, edge_type.s) ELSE byRank)

get_powers(source, rank) ==
    LET bySource == IF Filters(source) THEN BySource(cat.POWERS, source.s) ELSE cat.POWERS
    IN  Answer("get_powers", [source |-> source, rank |-> rank],
               IF Filters(rank) THEN ByRank(bySource, rank.s) ELSE bySource)

(***************************************************************************)
(* Legacy data migration: the items of hindrances_json, edges_json and     *)
(* powers_json are parsed, matched against the catalogues and inserted     *)
(* into the managed tables.  The texts are read character by character as  *)
(* the regular expressions of _parse_hindrance and _parse_edge read them   *)
(* (the en and em dashes of the dash class behave as its hyphen).          *)
(***************************************************************************)
\* str.lstrip(), which is also what a leading \s* of a pattern consumes
RECURSIVE LStrip(_)
LStrip(s) ==
    IF s # "" /\ SubSeq(s, 1, 1) = " " THEN LStrip(SubSeq(s, 2, Len(s))) ELSE s

\* str.strip()
RECURSIVE Strip(_)
Strip(s) ==
    IF LStrip(s) # s THEN Strip(LStrip(s))
    ELSE IF s # "" /\ SubSeq(s, Len(s), Len(s)) = " " THEN Strip(SubSeq(s, 1, Len(s) - 1))
    ELSE s

\* str.lower(), letter by letter: the lower-case letter of each upper-case one
LowerCase ==
    LET upper == "ABCDEFGHIJKLMNOPQRSTUVWXYZ"
        lower == "abcdefghijklmnopqrstuvwxyz"
    IN  [c \in {SubSeq(upper, i, i) : i \in 1..Len(upper)} |->
            LET i == CHOOSE i \in 1..Len(upper) : SubSeq(upper, i, i) = c
            IN  SubSeq(lower, i, i)]

Lower(c) == IF c \in DOMAIN LowerCase THEN LowerCase[c] ELSE c

\* a.lower() == b.lower(), letter by letter
SameLower(a, b) ==
    /\ Len(a) = Len(b)
    /\ \A i \in 1..Len(a) : Lower(SubSeq(a, i, i)) = Lower(SubSeq(b, i, i))

\* re.match(r'^(.+?)<tail>', raw): the shortest non-empty group 1 whose
\* remainder the tail of the pattern matches, 0 when there is none
Group1(raw, TailMatches(_)) ==
    LET ps == {p \in 1..Len(raw) : TailMatches(SubSeq(raw, p + 1, Len(raw)))}
    IN  IF ps = {} THEN 0 ELSE CHOOSE p \in ps : \A q \in ps : p <= q

\* \s*\((Major|Minor)(?:\s*[-]\s*(.+?))?\)\s*$ on the rest of a stripped text
HindranceTail(rest) ==
    LET tail == LStrip(rest)
        noted == LStrip(SubSeq(tail, 7, Len(tail)))
    IN  /\ Len(tail) >= 7
        /\ SubSeq(tail, 1, 1) = "("
        /\ SubSeq(tail, 2, 6) \in {"Major", "Minor"}
        /\ \/ SubSeq(tail, 7, Len(tail)) = ")"
           \/ /\ Len(noted) >= 3
              /\ SubSeq(noted, 1, 1) = "-"
              /\ SubSeq(noted, Len(noted), Len(noted)) = ")"

_parse_hindrance(raw_in) ==
    LET raw == Strip(raw_in)
        p == Group1(raw, HindranceTail)
        tail == LStrip(SubSeq(raw, p + 1, Len(raw)))
        noted == LStrip(SubSeq(tail, 7, Len(tail)))
    IN  IF p = 0
        THEN [original |-> raw, name |-> raw, severity |-> "Minor", notes |-> ""]
        ELSE [original |-> raw,
              name |-> Strip(SubSeq(raw, 1, p)),
              severity |-> SubSeq(tail, 2, 6),
              notes |-> IF noted = ")" THEN ""
                        ELSE Strip(SubSeq(noted, 2, Len(noted) - 1))]

\* \s*\((.+?)\)\s*$ on the rest of a stripped text
EdgeTail(rest) ==
    LET tail == LStrip(rest)
    IN  /\ Len(tail) >= 3
        /\ SubSeq(tail, 1, 1) = "("
        /\ SubSeq(tail, Len(tail), Len(tail)) = ")"

_parse_edge(raw_in) ==
    LET raw == Strip(raw_in)
        p == Group1(raw, EdgeTail)
        tail == LStrip(SubSeq(raw, p + 1, Len(raw)))
    IN  IF p = 0
        THEN [original |-> raw, name |-> raw, notes |-> ""]
        ELSE [original |-> raw,
              name |-> Strip(SubSeq(raw, 1, p)),
              notes |-> Strip(SubSeq(tail, 2, Len(tail) - 1))]

\* the first catalogue item whose name is the given one in lower case (0: none)
FirstNamed(name, catalogue) ==
    LET at == {i \in DOMAIN catalogue : SameLower(catalogue[i].name, name)}
    IN  IF at = {} THEN 0 ELSE CHOOSE i \in at : \A j \in at : i <= j

\* item.get('source', 'Core') of the matching item, None without one
_match_hindrance(parsed, catalogue) ==
    LET i == FirstNamed(parsed.name, catalogue)
    IN  IF i = 0 THEN Null ELSE VStr(Get(catalogue[i], "source", "Core"))

_match_edge(parsed, catalogue) ==
    LET i == FirstNamed(parsed.name, catalogue)
    IN  IF i = 0 THEN Null ELSE VStr(Get(catalogue[i], "source", "Core"))

\* the matching item itself, as a list of one (the empty list stands for None);
\* the name is lowered and then stripped before it is compared
_match_power(name, catalogue) ==
    LET i == FirstNamed(Strip(name), catalogue)
    IN  IF i = 0 THEN <<>> ELSE << catalogue[i] >>

\* `source or 'Custom'`
OrCustom(source) == IF source.t = "null" \/ source.s = "" THEN VStr("Custom") ELSE source

\* the three legacy lists of an NPC row, as json.loads hands them over
LegacyColumns == << "hindrances_json", "edges_json", "powers_json" >>
LegacyOf(row) == [i \in DOMAIN LegacyColumns |-> JsonLoads(row[LegacyColumns[i]])]

\* `not x` of a loaded value: the empty list or the number 0
Falsy(row, i) ==
    \/ LegacyOf(row)[i].kind = "list" /\ LegacyOf(row)[i].list = <<>>
    \/ LegacyOf(row)[i].kind = "number" /\ row[LegacyColumns[i]].s = "0"

\* `if not hindrances_raw and not edges_raw and not powers_raw: continue`
NothingLegacy(row) == \A i \in DOMAIN LegacyColumns : Falsy(row, i)

\* the loop over the NPC rows raises: a text json.loads rejects, or a number
\* where the loops expect a list to iterate
LegacyRaises(rows) ==
    \E id \in DOMAIN rows :
        \/ \E i \in DOMAIN LegacyColumns : LegacyOf(rows[id])[i].kind = "error"
        \/ /\ ~NothingLegacy(rows[id])
           /\ \E i \in DOMAIN LegacyColumns : LegacyOf(rows[id])[i].kind = "number"

\* what the loops of both handlers work out for one legacy item
HindranceItem(h_raw) ==
    LET parsed == _parse_hindrance(h_raw)
        source == _match_hindrance(parsed, cat.HINDRANCES)
    IN  [original |-> parsed.original, name |-> parsed.name, severity |-> parsed.severity,
         notes |-> parsed.notes, matched |-> source # Null, source |-> OrCustom(source).s]

EdgeItem(e_raw) ==
    LET parsed == _parse_edge(e_raw)
        source == _match_edge(parsed, cat.EDGES)
    IN  [original |-> parsed.original, name |-> parsed.name, notes |-> parsed.notes,
         matched |-> source # Null, source |-> OrCustom(source).s]

PowerItem(p_raw) ==
    LET p_name == Strip(p_raw)
        match == _match_power(p_name, cat.POWERS)
    IN  [original |-> p_raw, name |-> p_name, matched |-> match # <<>>,
         source |-> IF match # <<>> THEN Get(match[1], "source", "Core") ELSE "Custom",
         pp_cost |-> IF match # <<>> /\ "pp" \in DOMAIN match[1]
                     THEN VStr(match[1].pp) ELSE VInt(0)]

\* the ids of the rows in the order `SELECT ... FROM npcs` returns them
RECURSIVE Ascending(_)
Ascending(ids) ==
    IF ids = {} THEN <<>>
    ELSE LET least == CHOOSE i \in ids : \A j \in ids : i <= j
         IN  <<least>> \o Ascending(ids \ {least})

\* GET /api/migration/preview: reads only
PreviewOf(id) ==
    LET legacy == LegacyOf(npcs[id])
    IN  [id |-> id,
         hindrances |-> [i \in DOMAIN legacy[1].list |-> HindranceItem(legacy[1].list[i])],
         edges |-> [i \in DOMAIN legacy[2].list |-> EdgeItem(legacy[2].list[i])],
         powers |-> [i \in DOMAIN legacy[3].list |-> PowerItem(legacy[3].list[i])],
         already_has_managed |->
             [hindrances |-> Cardinality(RowsOf("npc_hindrances", id)),
              edges |-> Cardinality(RowsOf("npc_edges", id)),
              powers |-> Cardinality(RowsOf("npc_powers", id))]]

RECURSIVE TotalItems(_)
TotalItems(previews) ==
    IF previews = <<>> THEN 0
    ELSE Len(Head(previews).hindrances) + Len(Head(previews).edges)
         + Len(Head(previews).powers) + TotalItems(Tail(previews))

MigrationPreview ==
    LET ids == Ascending({id \in DOMAIN npcs : ~NothingLegacy(npcs[id])})
        result_npcs == [i \in DOMAIN ids |-> PreviewOf(ids[i])]
    IN  IF LegacyRaises(npcs)
        THEN Response("migration_preview", 500, 0, 0, <<>>, <<>>)
        ELSE Response("migration_preview", 200, 0, 0, <<>>,
                      [npcs |-> result_npcs, total_items |-> TotalItems(result_npcs)])

api_migration_preview ==
    /\ resp' = MigrationPreview
    /\ UNCHANGED <<npcs, db, seq, cat, audit, files, page>>

\* the values each INSERT of api_migration_execute binds; a column the
\* statement does not name takes its declared default, NULL
HindranceValues(h_raw) ==
    LET item == HindranceItem(h_raw)
    IN  [name |-> VStr(item.name), severity |-> VStr(item.severity),
         source |-> VStr(item.source), notes |-> VStr(item.notes)]

EdgeValues(e_raw) ==
    LET item == EdgeItem(e_raw)
    IN  [name |-> VStr(item.name), source |-> VStr(item.source), notes |-> VStr(item.notes)]

PowerValues(p_raw) ==
    LET item == PowerItem(p_raw)
    IN  [name |-> VStr(item.name), power_points |-> item.pp_cost, range |-> Null,
         duration |-> Null, trapping |-> Null, source |-> VStr(item.source),
         notes |-> VStr("")]

\* one legacy item inserted without the duplicate check and without noting
\* that the NPC was touched, so that its legacy lists are kept
MigrateItemUntouched(st, t, npc_id, vals) ==
    LET rid == Max({st.seq[t]} \cup {r.id : r \in st.db[t]}) + 1
    IN  [st EXCEPT !.db[t] = @ \cup {NewRow(t, rid, npc_id, vals)},
                   !.seq[t] = rid,
                   !.migrated_items = @ + 1]

\* one legacy item inserted without the duplicate check
MigrateItemUnchecked(st, t, npc_id, vals) ==
    LET rid == Max({st.seq[t]} \cup {r.id : r \in st.db[t]}) + 1
    IN  [st EXCEPT !.db[t] = @ \cup {NewRow(t, rid, npc_id, vals)},
                   !.seq[t] = rid,
                   !.migrated_items = @ + 1,
                   !.npc_touched = TRUE]

\* one legacy item inside the transaction st: the duplicate check
\* `SELECT id FROM t WHERE npc_id=? AND name=?`, then the INSERT or a warning
MigrateItem(st, t, npc_id, vals) ==
    IF \E r \in st.db[t] : r.npc_id = npc_id /\ r.name = vals.name
    THEN [st EXCEPT !.warnings = @ + 1]
    ELSE LET rid == Max({st.seq[t]} \cup {r.id : r \in st.db[t]}) + 1
         IN  [st EXCEPT !.db[t] = @ \cup {NewRow(t, rid, npc_id, vals)},
                        !.seq[t] = rid,
                        !.migrated_items = @ + 1,
                        !.npc_touched = TRUE]

\* `x = e` followed by the statements Rest(x): e is worked out once
AndThen(e, Rest(_)) == CHOOSE out \in {Rest(x) : x \in {e}} : TRUE

RECURSIVE MigrateItems(_, _, _, _)
MigrateItems(st, t, npc_id, rows) ==
    IF rows = <<>> THEN st
    ELSE AndThen(MigrateItem(st, t, npc_id, Head(rows)),
                 LAMBDA next : MigrateItems(next, t, npc_id, Tail(rows)))

\* the database as the connection of the request sees it when it is opened
MigrationStart ==
    [npcs |-> npcs, db |-> db, seq |-> seq, npc_touched |-> FALSE,
     migrated_npcs |-> 0, migrated_items |-> 0, warnings |-> 0, raised |-> FALSE]

\* The body of `for npc in npcs` for one NPC.  json.loads reads all three
\* columns before the first INSERT, so a text it rejects raises at once; a
\* number raises when its loop is reached, after the lists before it.  Once
\* an exception has left the loop no statement follows.
MigrateNpc(st, id) ==
    LET legacy == LegacyOf(st.npcs[id])
        raises == LegacyRaises(id :> st.npcs[id])
        upto == IF ~raises THEN 3
                ELSE IF \E i \in DOMAIN legacy : legacy[i].kind = "error" THEN 0
                ELSE (CHOOSE i \in DOMAIN legacy :
                          /\ legacy[i].kind = "number"
                          /\ \A j \in 1..(i - 1) : legacy[j].kind # "number") - 1
        hindrances == IF upto < 1 THEN <<>>
                      ELSE [i \in DOMAIN legacy[1].list |-> HindranceValues(legacy[1].list[i])]
        edges == IF upto < 2 THEN <<>>
                 ELSE [i \in DOMAIN legacy[2].list |-> EdgeValues(legacy[2].list[i])]
        powers == IF upto < 3 THEN <<>>
                  ELSE [i \in DOMAIN legacy[3].list |-> PowerValues(legacy[3].list[i])]
        Cleared(p) ==
            IF raises THEN [p EXCEPT !.raised = TRUE]
            ELSE IF p.npc_touched
            THEN [p EXCEPT !.npcs[id] = [c \in DOMAIN @ |->
                                            IF \E i \in DOMAIN LegacyColumns : LegacyColumns[i] = c
                                            THEN VStr("[]") ELSE @[c]],
                           !.migrated_npcs = @ + 1]
            ELSE p
    IN  IF st.raised \/ (~raises /\ NothingLegacy(st.npcs[id])) THEN st
        ELSE AndThen(MigrateItems([st EXCEPT !.npc_touched = FALSE], "npc_hindrances", id, hindrances),
             LAMBDA h : AndThen(MigrateItems(h, "npc_edges", id, edges),
             LAMBDA e : AndThen(MigrateItems(e, "npc_powers", id, powers), Cleared)))

RECURSIVE MigrateAll(_, _)
MigrateAll(st, ids) ==
    IF ids = <<>> THEN st
    ELSE AndThen(MigrateNpc(st, Head(ids)), LAMBDA next : MigrateAll(next, Tail(ids)))

\* POST /api/migration/execute: every NPC in one transaction, committed at the end
MigrationExecute == MigrateAll(MigrationStart, Ascending(DOMAIN npcs))

\* every statement committed as it is executed (a connection in autocommit mode)
CommittedEachStatement(before, after) == after

\* What the database holds once the connection is gone: the writes of the
\* transaction when conn.commit() was reached; without it (an exception
\* left the function first) the uncommitted transaction is rolled back.
Committed(before, after) ==
    IF after.raised THEN [before EXCEPT !.raised = TRUE] ELSE after

api_migration_execute ==
    \E before \in {MigrationStart}, after \in {MigrationExecute} :
    \E done \in {Committed(before, after)} :
        /\ npcs' = done.npcs
        /\ db' = done.db
        /\ seq' = done.seq
        /\ resp' = IF done.raised
                   THEN Response("migration_execute", 500, 0, 0, <<>>, <<>>)
                   ELSE Response("migration_execute", 200, 0, 0, <<>>,
                                 [success |-> TRUE,
                                  migrated_npcs |-> done.migrated_npcs,
                                  migrated_items |-> done.migrated_items,
                                  warnings |-> done.warnings])
        /\ UNCHANGED <<cat, audit, files, page>>

(***************************************************************************)
(* Requests the client can send.                                           *)
(***************************************************************************)
MaxNpcId == 2
MaxChildRows == 3
MaxNpcGear == 1

NpcIds == 1..MaxNpcId
RowIds == 1..MaxChildRows

\* AUTOINCREMENT ids handed out so far over all child tables
RowsInserted == seq.npc_skills + seq.npc_weapons + seq.npc_armor + seq.npc_gear
                + seq.npc_hindrances + seq.npc_edges + seq.npc_powers

CreateBodies ==
    << ("name" :> VStr("Ann")) @@ ("edges_json" :> VStr("oops")),
       ("name" :> VStr("Ann")) @@ ("agility" :> VInt(6)),
       ("name" :> VStr("Bob")) @@ ("stat_block_complete" :> VBool(TRUE)),
       ("name" :> VStr("Ann")) @@ ("edges_json" :> ListV),
       ("agility" :> VInt(6)),
       ("portrait_path" :> VStr("npc_1.png")),
       <<>> >>

UpdateBodies ==
    << ("parry" :> VInt(5)),
       ("edges_json" :> VStr("oops")),
       ("fg_export_ready" :> VInt(1)),
       ("name" :> Null),
       ("id" :> VInt(2)),
       ("bogus" :> VInt(1)),
       <<>> >>

NoResponse == Response("none", 0, 0, 0, <<>>, <<>>)

InitDb ==
    /\ npcs = <<>>
    /\ db = [t \in Tables |-> {}]
    /\ seq = [t \in Tables \cup {"npcs"} |-> 0]
    /\ resp = NoResponse

Init ==
    /\ InitDb
    /\ cat = Catalogues
    /\ audit = [id |-> 0, n |-> <<>>, findings |-> <<>>]
    /\ page = NoPage
    /\ files = [portraits |-> <<>>, backups |-> <<>>, clock |-> 1,
                database |-> [tables |-> {"npcs"} \cup Tables, portrait_path |-> TRUE]]

\* One well-formed body per child table, as the client's add forms send it.
PlainBody ==
    [npc_skills |-> ("name" :> VStr("Fighting")) @@ ("die" :> VInt(8)),
     npc_weapons |-> ("name" :> VStr("Axe")) @@ ("damage_str" :> VStr("Str+d6"))
                     @@ ("damagedice" :> VStr("d6")),
     npc_armor |-> ("name" :> VStr("Mail")) @@ ("protection" :> VInt(2)),
     npc_gear |-> ("name" :> VStr("Rope")),
     npc_hindrances |-> ("name" :> VStr("Mean")) @@ ("severity" :> VStr("Major")),
     npc_edges |-> ("name" :> VStr("Block")),
     npc_powers |-> ("name" :> VStr("Bolt"))]

NextNpc ==
    \/ \E i \in DOMAIN CreateBodies :
          /\ NextRowid("npcs", DOMAIN npcs) <= MaxNpcId
          /\ api_create_npc(CreateBodies[i])
    \/ \E id \in NpcIds : api_get_npc(id)
    \/ \E id \in NpcIds, i \in DOMAIN UpdateBodies : api_update_npc(id, UpdateBodies[i])
    \/ \E id \in NpcIds : api_delete_npc(id)
    \/ \E id \in NpcIds : api_statblock(id)
    \/ \E id \in NpcIds : api_fg_xml(id)
    \/ \E id \in NpcIds : seq.npc_gear < MaxNpcGear /\ api_add_gear(id, PlainBody.npc_gear)

SpecNpc == Init /\ [][NextNpc]_vars

CreatePlain ==
    /\ NextRowid("npcs", DOMAIN npcs) <= MaxNpcId
    /\ api_create_npc(("name" :> VStr("Ann")) @@ ("agility" :> VInt(6)))

AddAllowed == RowsInserted < MaxChildRows

MaxCascadeRows == 2

CascadeAllowed == RowsInserted < MaxCascadeRows

NextCascade ==
    \/ CreatePlain
    \/ \E id \in NpcIds : api_delete_npc(id)
    \/ \E id \in NpcIds : CascadeAllowed /\ api_add_skill(id, PlainBody.npc_skills)
    \/ \E id \in NpcIds : CascadeAllowed /\ api_add_weapon(id, PlainBody.npc_weapons)
    \/ \E id \in NpcIds : CascadeAllowed /\ api_add_armor(id, PlainBody.npc_armor)
    \/ \E id \in NpcIds : CascadeAllowed /\ api_add_gear(id, PlainBody.npc_gear)
    \/ \E id \in NpcIds : CascadeAllowed /\ api_add_npc_hindrance(id, PlainBody.npc_hindrances)
    \/ \E id \in NpcIds : CascadeAllowed /\ api_add_npc_edge(id, PlainBody.npc_edges)
    \/ \E id \in NpcIds : CascadeAllowed /\ api_add_npc_power(id, PlainBody.npc_powers)

SpecCascade == Init /\ [][NextCascade]_vars

(***************************************************************************)
(* Child records: add, list and delete on the six tables the workspaces    *)
(* edit, with bodies whose values match the column types and bodies whose  *)
(* values SQLite converts.                                                 *)
(***************************************************************************)
MaxChildAdds == 2

ChildBodies ==
    [npc_weapons |-> << PlainBody.npc_weapons >>,
     npc_armor |-> << PlainBody.npc_armor,
                      ("name" :> VStr("Mail")) @@ ("protection" :> VStr("2")) >>,
     npc_gear |-> << PlainBody.npc_gear,
                     ("name" :> VStr("Rope")) @@ ("quantity" :> VBool(TRUE)) >>,
     npc_hindrances |-> << PlainBody.npc_hindrances >>,
     npc_edges |-> << PlainBody.npc_edges, ("name" :> VInt(5)) >>,
     npc_powers |-> << PlainBody.npc_powers >>]

ChildTables == DOMAIN ChildBodies

ChildAllowed == RowsInserted < MaxChildAdds

NextChild ==
    \/ CreatePlain
    \/ \E id \in NpcIds, i \in DOMAIN ChildBodies.npc_weapons :
          ChildAllowed /\ api_add_weapon(id, ChildBodies.npc_weapons[i])
    \/ \E id \in NpcIds, i \in DOMAIN ChildBodies.npc_armor :
          ChildAllowed /\ api_add_armor(id, ChildBodies.npc_armor[i])
    \/ \E id \in NpcIds, i \in DOMAIN ChildBodies.npc_gear :
          ChildAllowed /\ api_add_gear(id, ChildBodies.npc_gear[i])
    \/ \E id \in NpcIds, i \in DOMAIN ChildBodies.npc_hindrances :
          ChildAllowed /\ api_add_npc_hindrance(id, ChildBodies.npc_hindrances[i])
    \/ \E id \in NpcIds, i \in DOMAIN ChildBodies.npc_edges :
          ChildAllowed /\ api_add_npc_edge(id, ChildBodies.npc_edges[i])
    \/ \E id \in NpcIds, i \in DOMAIN ChildBodies.npc_powers :
          ChildAllowed /\ api_add_npc_power(id, ChildBodies.npc_powers[i])
    \/ \E id \in NpcIds : api_get_weapons(id)
    \/ \E id \in NpcIds : api_get_armor(id)
    \/ \E id \in NpcIds : api_get_gear(id)
    \/ \E id \in NpcIds : api_get_npc_hindrances(id)
    \/ \E id \in NpcIds : api_get_npc_edges(id)
    \/ \E id \in NpcIds : api_get_npc_powers(id)
    \/ \E rid \in RowIds : api_delete_weapon(rid)
    \/ \E rid \in RowIds : api_delete_armor(rid)
    \/ \E rid \in RowIds : api_delete_gear(rid)
    \/ \E id \in NpcIds, rid \in RowIds : api_delete_npc_hindrance(id, rid)
    \/ \E id \in NpcIds, rid \in RowIds : api_delete_npc_edge(id, rid)
    \/ \E id \in NpcIds, rid \in RowIds : api_delete_npc_power(id, rid)

SpecChild == Init /\ [][NextChild]_vars

(***************************************************************************)
(* Create and add requests whose body lacks a field the handler requires,  *)
(* beside the well-formed ones.                                            *)
(***************************************************************************)
LackingBodies ==
    [npcs |-> << ("agility" :> VInt(6)), <<>> >>,
     npc_skills |-> << ("name" :> VStr("Fighting")), ("die" :> VInt(8)) >>,
     npc_weapons |-> << ("name" :> VStr("Axe")) @@ ("damagedice" :> VStr("d6")),
                        ("name" :> VStr("Axe")) @@ ("damage_str" :> VStr("Str+d6")) >>,
     npc_armor |-> << ("protection" :> VInt(2)) >>,
     npc_gear |-> << ("quantity" :> VInt(2)) >>,
     npc_hindrances |-> << ("name" :> VStr("Mean")), ("severity" :> VStr("Major")) >>,
     npc_edges |-> << ("notes" :> VStr("x")) >>,
     npc_powers |-> << ("power_points" :> VInt(2)) >>]

\* the bodies sent to table t: the well-formed one, then the lacking ones
BodiesFor(t) == << PlainBody[t] >> \o LackingBodies[t]

NextRequired ==
    \/ CreatePlain
    \/ \E id \in NpcIds : api_delete_npc(id)
    \/ \E id \in NpcIds, i \in DOMAIN BodiesFor("npc_skills") :
          AddAllowed /\ api_add_skill(id, BodiesFor("npc_skills")[i])
    \/ \E id \in NpcIds, i \in DOMAIN BodiesFor("npc_weapons") :
          AddAllowed /\ api_add_weapon(id, BodiesFor("npc_weapons")[i])
    \/ \E id \in NpcIds, i \in DOMAIN BodiesFor("npc_armor") :
          AddAllowed /\ api_add_armor(id, BodiesFor("npc_armor")[i])
    \/ \E id \in NpcIds, i \in DOMAIN BodiesFor("npc_gear") :
          AddAllowed /\ api_add_gear(id, BodiesFor("npc_gear")[i])
    \/ \E id \in NpcIds, i \in DOMAIN BodiesFor("npc_hindrances") :
          AddAllowed /\ api_add_npc_hindrance(id, BodiesFor("npc_hindrances")[i])
    \/ \E id \in NpcIds, i \in DOMAIN BodiesFor("npc_edges") :
          AddAllowed /\ api_add_npc_edge(id, BodiesFor("npc_edges")[i])
    \/ \E id \in NpcIds, i \in DOMAIN BodiesFor("npc_powers") :
          AddAllowed /\ api_add_npc_power(id, BodiesFor("npc_powers")[i])
    \/ \E i \in DOMAIN LackingBodies.npcs : api_create_npc(LackingBodies.npcs[i])

SpecRequired == Init /\ [][NextRequired]_vars

(***************************************************************************)
(* One NPC whose Parry, Fighting die and edges (managed and legacy) are    *)
(* edited, and audited after any of the edits.                             *)
(***************************************************************************)
MaxAuditNpcs == 1
AuditIds == 1..MaxAuditNpcs

ParryBodies ==
    << ("parry" :> VInt(6)), ("parry" :> VInt(7)),
       ("edges_json" :> VStr("[\"Block\"]")) >>
FightingBodies ==
    << PlainBody.npc_skills, ("name" :> VStr("Fighting")) @@ ("die" :> VInt(0)) >>
EdgeBodies ==
    << PlainBody.npc_edges, ("name" :> VStr("Brawny")) >>

NextAudit ==
    \/ seq.npcs < MaxAuditNpcs /\ CreatePlain
    \/ \E id \in AuditIds, i \in DOMAIN ParryBodies : api_update_npc(id, ParryBodies[i])
    \/ \E id \in AuditIds, i \in DOMAIN FightingBodies :
          AddAllowed /\ api_add_skill(id, FightingBodies[i])
    \/ \E id \in AuditIds, i \in DOMAIN EdgeBodies :
          AddAllowed /\ api_add_npc_edge(id, EdgeBodies[i])
    \/ \E id \in AuditIds : selectNPC(id)

SpecAudit == Init /\ [][NextAudit]_vars

(***************************************************************************)
(* Catalogue lookups with every source, no source, 'All', the empty        *)
(* string and a source no module has.                                      *)
(***************************************************************************)
SourceTexts == {SOURCES[i] : i \in DOMAIN SOURCES} \cup {"All", "", "Nowhere"}
SeverityTexts == {"All", "", "Major", "Minor"}
RankTexts == {"Novice"}
TypeTexts == {"Combat"}

\* the query strings with an optional source (and severity)
SourceQueries == { <<>> } \cup { ("source" :> s) : s \in SourceTexts }
SeverityQueries == { <<>> } \cup { ("severity" :> v) : v \in SeverityTexts }

\* the arguments of a get_* call: None or a text
Optional(texts) == { Null } \cup { VStr(x) : x \in texts }

NextCatalogue ==
    \/ \E args \in SourceQueries : api_catalogue_weapons(args)
    \/ \E args \in SourceQueries : api_catalogue_armor(args)
    \/ \E args \in SourceQueries : api_catalogue_gear(args)
    \/ \E args \in SourceQueries : api_catalogue_edges(args)
    \/ \E args \in SourceQueries : api_catalogue_powers(args)
    \/ \E a \in SourceQueries, b \in SeverityQueries : api_catalogue_hindrances(a @@ b)
    \/ \E source \in Optional(SourceTexts) : get_weapons(source)
    \/ \E source \in Optional(SourceTexts) : get_armor(source)
    \/ \E source \in Optional(SourceTexts) : get_gear(source)
    \/ \E source \in Optional(SourceTexts), severity \in Optional(SeverityTexts) :
          get_hindrances(source, severity)
    \/ \E source \in Optional(SourceTexts), rank \in Optional(RankTexts),
          edge_type \in Optional(TypeTexts) : get_edges(source, rank, edge_type)
    \/ \E source \in Optional(SourceTexts), rank \in Optional(RankTexts) :
          get_powers(source, rank)

SpecCatalogue == Init /\ [][NextCatalogue]_vars

(***************************************************************************)
(* Legacy migration among the other requests: NPCs saved with legacy       *)
(* lists, managed hindrances added and deleted by hand, the migration      *)
(* previewed and executed, and a catalogue looked up in between.           *)
(***************************************************************************)
MaxLegacyNpcs == 1
MaxLegacyRows == 2
MaxLegacyAdds == 1
LegacyIds == 1..MaxLegacyNpcs

LegacyText(k) == VStr(JsonTexts[k].text)

LegacyBodies ==
    << ("name" :> VStr("Ann")) @@ ("hindrances_json" :> LegacyText("h1"))
           @@ ("edges_json" :> LegacyText("e2")) @@ ("powers_json" :> LegacyText("p1")),
       ("name" :> VStr("Bob")) @@ ("hindrances_json" :> LegacyText("h2")) >>

HindranceBodies ==
    << ("name" :> VStr("Cursed")) @@ ("severity" :> VStr("Major")),
       ("name" :> VStr("Mean")) @@ ("severity" :> VStr("Severe")) >>

NextLegacy ==
    \/ \E i \in DOMAIN LegacyBodies :
          /\ NextRowid("npcs", DOMAIN npcs) <= MaxLegacyNpcs
          /\ api_create_npc(LegacyBodies[i])
    \/ \E id \in LegacyIds :
          /\ RowsInserted < MaxLegacyRows
          /\ api_update_npc(id, "hindrances_json" :> LegacyText("h1"))
    \/ \E id \in LegacyIds : api_delete_npc(id)
    \/ \E id \in LegacyIds, i \in DOMAIN HindranceBodies :
          /\ RowsInserted < MaxLegacyAdds
          /\ api_add_npc_hindrance(id, HindranceBodies[i])
    \/ \E id \in LegacyIds, rid \in RowIds : api_delete_npc_hindrance(id, rid)
    \/ api_migration_preview
    \/ api_migration_execute
    \/ api_catalogue_hindrances("source" :> "Concordium")

SpecLegacy == Init /\ [][NextLegacy]_vars

(***************************************************************************)
(* C1  Cascade delete.  Right after api_delete_npc(id) has answered, no    *)
(* child table holds a row whose npc_id is id, and the step has changed    *)
(* neither a child row of another NPC nor another NPC's row.               *)
(***************************************************************************)
C1_CascadeDelete ==
    /\ [](resp.op = "delete_npc" => \A t \in Tables : RowsOf(t, resp.id) = {})
    /\ [][resp'.op = "delete_npc" =>
            /\ \A t \in Tables : {r \in db'[t] : r.npc_id # resp'.id}
                                   = {r \in db[t] : r.npc_id # resp'.id}
            /\ \A i \in DOMAIN npcs \ {resp'.id} : i \in DOMAIN npcs' /\ npcs'[i] = npcs[i]]_vars

\* NPC 1 was deleted after a child row had been added for it, while NPC 2
\* (never deleted: NPC ids are not reused) still has the other row
C1_Witness ==
    /\ resp.op = "delete_npc" /\ resp.id = 1 /\ seq.npcs = 2
    /\ 2 \in DOMAIN npcs /\ RowsInserted = 2
    /\ \A t \in Tables : RowsOf(t, 1) = {}
    /\ Cardinality(UNION {RowsOf(t, 2) : t \in Tables}) = 1

(***************************************************************************)
(* C2  NPC create/read round trip.  Once api_create_npc has returned an    *)
(* id, api_get_npc of that id answers 200 and returns, for every           *)
(* whitelisted field present in the request body, exactly the value that   *)
(* was sent; and the id returned is the id of no NPC that existed before.  *)
(***************************************************************************)
C2_CreateReadRoundTrip ==
    /\ [](resp.op = "create_npc" /\ resp.status = 200 =>
            LET got == GetNpc(resp.id)
            IN  /\ got.status = 200
                /\ \A k \in DOMAIN resp.req \cap NpcWhitelist : got.out.npc[k] = resp.req[k])
    /\ [][resp'.op = "create_npc" /\ resp'.status = 200 => resp'.id \notin DOMAIN npcs]_vars

(***************************************************************************)
(* C3  NPC edit preserves everything it does not name.  When               *)
(* api_update_npc(id, body) answers 200 for an NPC that exists and that    *)
(* api_get_npc could read before, the step changes no child row, no other  *)
(* NPC and no column of that NPC outside body, and api_get_npc(id) then    *)
(* answers 200 with the value body gave for every column it names.         *)
(***************************************************************************)
C3_UpdateFrame ==
    [][\A id \in NpcIds :
          ( /\ resp'.op = "update_npc" /\ resp'.status = 200 /\ resp'.id = id
            /\ id \in DOMAIN npcs /\ GetNpc(id).status = 200 )
          => /\ db' = db
             /\ \A i \in DOMAIN npcs \ {id} : i \in DOMAIN npcs' /\ npcs'[i] = npcs[i]
             /\ id \in DOMAIN npcs'
             /\ \A c \in DOMAIN NpcColType \ DOMAIN resp'.req : npcs'[id][c] = npcs[id][c]
             /\ GetNpc(id)'.status = 200
             /\ \A k \in DOMAIN resp'.req : GetNpc(id)'.out.npc[k] = resp'.req[k]]_vars

(***************************************************************************)
(* C5  Missing record yields 404.  A get, update, delete, statblock or FG  *)
(* XML request for an id that no NPC has is answered 404 and changes       *)
(* neither the npcs table nor any child table.                             *)
(***************************************************************************)
C5_MissingRecord404 ==
    [][\A id \in NpcIds :
          ( /\ resp'.op \in {"get_npc", "update_npc", "delete_npc", "statblock", "fgxml"}
            /\ resp'.id = id /\ id \notin DOMAIN npcs )
          => resp'.status = 404 /\ npcs' = npcs /\ db' = db]_vars

(***************************************************************************)
(* C4  Child record round trip.                                            *)
(***************************************************************************)
AddOp ==
    [npc_weapons |-> "add_weapon", npc_armor |-> "add_armor", npc_gear |-> "add_gear",
     npc_hindrances |-> "add_hindrance", npc_edges |-> "add_edge", npc_powers |-> "add_power"]
DeleteOp ==
    [npc_weapons |-> "delete_weapon", npc_armor |-> "delete_armor", npc_gear |-> "delete_gear",
     npc_hindrances |-> "delete_hindrance", npc_edges |-> "delete_edge",
     npc_powers |-> "delete_power"]

\* new is old with the one row r put in somewhere
OneMore(old, new, r) ==
    /\ Len(new) = Len(old) + 1
    /\ \E i \in 1..Len(new) :
          /\ new[i] = r
          /\ [j \in 1..Len(old) |-> IF j < i THEN new[j] ELSE new[j + 1]] = old

\* the step is a delete on table t that leaves everything but the rows `gone`
DeletesOnly(t, gone) ==
    /\ db'[t] = db[t] \ gone
    /\ \A u \in Tables \ {t} : db'[u] = db[u]
    /\ npcs' = npcs

\* C4 as the specification states it: an add that succeeds makes the list
\* endpoint return one more row, with the NPC's id and, column by column, the
\* value supplied (the default where none was); a delete by the id of a row
\* removes exactly that row and changes no other child row and no NPC.
C4_AsStated ==
    [][\A t \in ChildTables, id \in NpcIds, rid \in RowIds :
          /\ (resp'.op = AddOp[t] /\ resp'.status = 200 /\ resp'.id = id /\ resp'.rid = rid)
             => \E r \in db'[t] :
                   /\ r.id = rid /\ r.npc_id = id
                   /\ \A c \in DOMAIN ColType[t] : r[c] = Bound(t, resp'.req)[c]
                   /\ OneMore(ChildList(t, id), ChildList(t, id)', r)
          /\ (resp'.op = DeleteOp[t] /\ resp'.rid = rid /\ RowById(t, rid) # {})
             => DeletesOnly(t, RowById(t, rid))]_vars

\* C4, amended: the new row holds each supplied value (or default) as the
\* column's affinity stores it, and a hindrance, edge or power is deleted only
\* through the NPC that owns it: with another NPC's id in the URL the delete
\* removes nothing.  Weapons, armor and gear are deleted by row id alone.
C4_ChildRoundTrip ==
    [][\A t \in ChildTables, id \in NpcIds, rid \in RowIds :
          /\ (resp'.op = AddOp[t] /\ resp'.status = 200 /\ resp'.id = id /\ resp'.rid = rid)
             => \E r \in db'[t] :
                   /\ r.id = rid /\ r.npc_id = id
                   /\ \A c \in DOMAIN ColType[t] :
                         r[c] = Stored(ColType[t][c], Bound(t, resp'.req)[c])
                   /\ OneMore(ChildList(t, id), ChildList(t, id)', r)
          /\ (resp'.op = DeleteOp[t] /\ resp'.rid = rid)
             => IF t \in {"npc_hindrances", "npc_edges", "npc_powers"}
                THEN DeletesOnly(t, {r \in RowById(t, rid) : r.npc_id = resp'.id})
                ELSE DeletesOnly(t, RowById(t, rid))]_vars

\* a hindrance survives a delete sent through the NPC that does not own it,
\* beside an edge whose name was sent as the number 5 and is stored as text
C4_Witness ==
    /\ resp.op = "delete_hindrance"
    /\ \E r \in db.npc_hindrances : r.id = resp.rid /\ r.npc_id # resp.id
    /\ \E e \in db.npc_edges : e.name = VStr("5")

(***************************************************************************)
(* C6  Missing required field yields 400.  A create-NPC request without a  *)
(* name, or an add request without one of the fields its table requires    *)
(* (name; die for a skill; damage_str and damagedice for a weapon;         *)
(* severity for a hindrance), is answered 400 and inserts no row.          *)
(***************************************************************************)
RequiredOf(op) ==
    IF op = "create_npc" THEN {"name"}
    ELSE IF op = "add_skill" THEN Required.npc_skills
    ELSE IF op \in {AddOp[t] : t \in DOMAIN AddOp}
    THEN Required[CHOOSE t \in DOMAIN AddOp : AddOp[t] = op]
    ELSE {}

C6_MissingField400 ==
    [][~(RequiredOf(resp'.op) \subseteq DOMAIN resp'.req)
          => resp'.status = 400 /\ npcs' = npcs /\ db' = db]_vars

(***************************************************************************)
(* C7  Parry audit.                                                        *)
(***************************************************************************)
\* the audited NPC's Fighting die (0 without a Fighting skill), the Parry the
\* rules derive from it, and the level of the audit's Parry finding
AuditedFighting ==
    LET dice == {Num(audit.n.skills[i].die) :
                   i \in {j \in DOMAIN audit.n.skills : audit.n.skills[j].name.s = "Fighting"}}
    IN  IF dice = {} THEN 0 ELSE CHOOSE d \in dice : TRUE
AuditedParry == IF AuditedFighting = 0 THEN 2 ELSE 2 + (AuditedFighting \div 2)
ParryLevels ==
    {audit.findings[i].level : i \in {j \in DOMAIN audit.findings : audit.findings[j].stat = "Parry"}}
ManagedEdgeNames == {audit.n.edge_items[i].name.s : i \in DOMAIN audit.n.edge_items}
LegacyEdgeNames == {audit.n.edges.list[i] : i \in DOMAIN audit.n.edges.list}

\* the level the claim prescribes, given whether the NPC counts as having Block
ParryLevelFor(block) ==
    IF audit.n.npc.parry = VInt(AuditedParry) THEN "pass"
    ELSE IF block /\ audit.n.npc.parry = VInt(AuditedParry + 1) THEN "info"
    ELSE "warn"

\* C7 as the specification states it: the audit's one Parry finding is 'pass'
\* exactly when the stored parry is 2 (no Fighting, or die 0) or
\* 2 + floor(die/2); 'info' when the NPC has the Block edge, among its managed
\* or its legacy edges, and parry is one higher; 'warn' otherwise.
C7_AsStated ==
    audit.id # 0 =>
        ParryLevels = {ParryLevelFor(\E e \in ManagedEdgeNames \cup LegacyEdgeNames :
                                        Includes(e, "Block"))}

\* C7, amended: as above, but the edges the audit looks at are the managed
\* edges when the NPC has any, and the legacy edge strings only when it has
\* none: a legacy Block beside any managed edge is not seen.
C7_ParryAudit ==
    audit.id # 0 =>
        ParryLevels = {ParryLevelFor(
            \E e \in (IF ManagedEdgeNames # {} THEN ManagedEdgeNames ELSE LegacyEdgeNames) :
                Includes(e, "Block"))}

\* audited with Fighting d8, Parry 7, Block among the legacy edges and only
\* Brawny among the managed ones: the audit warns
C7_Witness ==
    /\ audit.id # 0 /\ AuditedFighting = 8 /\ audit.n.npc.parry = VInt(7)
    /\ ManagedEdgeNames = {"Brawny"} /\ LegacyEdgeNames = {"Block"}
    /\ ParryLevels = {"warn"}

(***************************************************************************)
(* C8  Catalogue filtering.                                                *)
(***************************************************************************)
LookupList ==
    [catalogue_weapons |-> "WEAPONS", catalogue_armor |-> "ARMOR", catalogue_gear |-> "GEAR",
     catalogue_hindrances |-> "HINDRANCES", catalogue_edges |-> "EDGES",
     catalogue_powers |-> "POWERS", get_weapons |-> "WEAPONS", get_armor |-> "ARMOR",
     get_gear |-> "GEAR", get_hindrances |-> "HINDRANCES", get_edges |-> "EDGES",
     get_powers |-> "POWERS"]
IsGetter == resp.op \in {"get_weapons", "get_armor", "get_gear", "get_hindrances",
                         "get_edges", "get_powers"}

\* the text the last lookup gave for a filter; no text given counts as 'All'
Asked(key) ==
    IF key \notin DOMAIN resp.req THEN "All"
    ELSE IF ~IsGetter THEN resp.req[key]
    ELSE IF resp.req[key].t = "null" THEN "All" ELSE resp.req[key].s

\* the entries of list that Keep holds for, in the order of list, each once
Kept(list, Keep(_)) ==
    LET idx == {i \in DOMAIN list : Keep(list[i])}
    IN  [k \in 1..Cardinality(idx) |->
            list[CHOOSE i \in idx : Cardinality({j \in idx : j < i}) = k - 1]]

\* the lookup answered with the entries matching every filter for which
\* NoFilter does not hold
AnswersFiltered(NoFilter(_)) ==
    resp.out = Kept(cat[LookupList[resp.op]],
                    LAMBDA e : /\ NoFilter(Asked("source")) \/ e.source = Asked("source")
                               /\ NoFilter(Asked("severity")) \/ e.severity = Asked("severity")
                               /\ NoFilter(Asked("rank")) \/ e.rank = Asked("rank")
                               /\ NoFilter(Asked("edge_type")) \/ e.type = Asked("edge_type"))

\* C8 as the specification states it: every lookup, the endpoint and the
\* package's get_* function alike, returns the whole catalogue for no source
\* or 'All', and for any other source s exactly the entries whose source is
\* s, in catalogue order (none for a source no entry has); a severity given
\* with it narrows the result to the entries of that severity.
C8_AsStated ==
    resp.op \in DOMAIN LookupList => AnswersFiltered(LAMBDA x : x = "All")

\* C8, amended: that holds for the endpoints; the get_* functions treat the
\* empty string like no filter, so get_weapons("") is the whole catalogue.
C8_CatalogueFiltering ==
    resp.op \in DOMAIN LookupList =>
        IF IsGetter THEN AnswersFiltered(LAMBDA x : x = "All" \/ x = "")
        ELSE AnswersFiltered(LAMBDA x : x = "All")

\* get_hindrances("", "Minor") answered with the Minor hindrances of every
\* source, and the two Grounded entries are both in the catalogue
C8_Witness ==
    /\ resp.op = "get_hindrances"
    /\ resp.req.source = VStr("") /\ resp.req.severity = VStr("Minor")
    /\ Len(resp.out) = 3
    /\ \E i \in DOMAIN resp.out : resp.out[i].name = "Grounded" /\ resp.out[i].source = "Concordium"

(***************************************************************************)
(* C9  Catalogues are immutable and tagged.  No request (catalogue lookup, *)
(* NPC or child create, update or delete, migration preview or execute)    *)
(* changes the content or the order of a catalogue list, and in every      *)
(* state each list is the lists of the six modules one after the other in  *)
(* the order of _MODULES, every entry being the module's item with a       *)
(* source tag equal to that module's SOURCE, which is one of SOURCES.      *)
(***************************************************************************)
\* the number of entries the modules before the m-th contribute to list
RECURSIVE EntriesBefore(_, _)
EntriesBefore(list, m) ==
    IF m = 1 THEN 0
    ELSE EntriesBefore(list, m - 1) + Len(ModuleList(list, _MODULES[m - 1]))

TaggedByModule(list) ==
    /\ Len(cat[list]) = EntriesBefore(list, Len(_MODULES) + 1)
    /\ \A m \in DOMAIN _MODULES : \A i \in DOMAIN ModuleList(list, _MODULES[m]) :
          LET item == ModuleList(list, _MODULES[m])[i]
              entry == cat[list][EntriesBefore(list, m) + i]
          IN  /\ DOMAIN entry = DOMAIN item \cup {"source"}
              /\ \A k \in DOMAIN item : entry[k] = item[k]
              /\ entry.source = SOURCE[_MODULES[m]]
              /\ \E s \in DOMAIN SOURCES : SOURCES[s] = entry.source

C9_CataloguesImmutableTagged ==
    /\ [][cat' = cat]_vars
    /\ [](\A list \in DOMAIN cat : TaggedByModule(list))

\* a migration has run and taken the source of a managed hindrance from the
\* Concordium entry of the catalogue, which is still the first Grounded entry
C9_Witness ==
    /\ resp.op = "migration_execute" /\ resp.status = 200
    /\ \E r \in db.npc_hindrances : r.name = VStr("grounded") /\ r.source = VStr("Concordium")
    /\ \E i \in DOMAIN cat.HINDRANCES :
          /\ cat.HINDRANCES[i].name = "Grounded" /\ cat.HINDRANCES[i].source = "Concordium"
          /\ \A j \in 1..(i - 1) : cat.HINDRANCES[j].name # "Grounded"

(***************************************************************************)
(* C10  Severity invariant.  In every reachable state every npc_hindrances *)
(* row has the severity Minor or Major, whether an add-hindrance request   *)
(* or a legacy migration inserted it.                                      *)
(***************************************************************************)
C10_SeverityInvariant ==
    \A r \in db.npc_hindrances : r.severity \in {VStr("Minor"), VStr("Major")}

(***************************************************************************)
(* The companion script npc_manager.py: parse_die, the add-skill command   *)
(* and edit_npc, which write to the same database as the web handlers.     *)
(* For a command, status 200 stands for a normal exit and 500 for a        *)
(* traceback that ends the process before its commit.                      *)
(***************************************************************************)
Digits == "0123456789"

IsDigits(s) == s # "" /\ \A i \in 1..Len(s) : \E k \in 1..Len(Digits) :
                                               SubSeq(s, i, i) = SubSeq(Digits, k, k)

\* int() of a string of decimal digits
RECURSIVE IntOf(_)
IntOf(s) ==
    IF s = "" THEN 0
    ELSE 10 * IntOf(SubSeq(s, 1, Len(s) - 1))
         + (CHOOSE k \in 1..Len(Digits) : SubSeq(Digits, k, k) = SubSeq(s, Len(s), Len(s))) - 1

\* s.lower().replace('d', '')
RECURSIVE LowerWithoutD(_)
LowerWithoutD(s) ==
    IF s = "" THEN ""
    ELSE (IF Lower(SubSeq(s, 1, 1)) = "d" THEN "" ELSE Lower(SubSeq(s, 1, 1)))
         \o LowerWithoutD(SubSeq(s, 2, Len(s)))

\* int(str(s).strip().lower().replace('d', '')): the integer, or ValueError
parse_die(s) ==
    LET t == Strip(LowerWithoutD(Strip(s)))
        signed == t # "" /\ SubSeq(t, 1, 1) \in {"-", "+"}
        digits == IF signed THEN SubSeq(t, 2, Len(t)) ELSE t
    IN  IF ~IsDigits(digits) THEN [ok |-> FALSE, n |-> 0]
        ELSE [ok |-> TRUE,
              n |-> IF signed /\ SubSeq(t, 1, 1) = "-" THEN 0 - IntOf(digits) ELSE IntOf(digits)]

\* npc_manager.py add-skill <npc_id> <skill_name> <die>
cli_add_skill(npc_id, skill_name, die) ==
    IF ~parse_die(die).ok
    THEN Fails("cli_add_skill", npc_id, 0, ("name" :> VStr(skill_name)) @@ ("die" :> VStr(die)))
    ELSE AddChild("cli_add_skill", "npc_skills", npc_id,
                  ("name" :> VStr(skill_name)) @@ ("die" :> VInt(parse_die(die).n)))

\* value.split(','), each part stripped
RECURSIVE SplitStripped(_)
SplitStripped(value) ==
    IF \E i \in 1..Len(value) : SubSeq(value, i, i) = ","
    THEN LET i == CHOOSE i \in 1..Len(value) :
                      /\ SubSeq(value, i, i) = ","
                      /\ \A j \in 1..(i - 1) : SubSeq(value, j, j) # ","
         IN  << Strip(SubSeq(value, 1, i - 1)) >> \o SplitStripped(SubSeq(value, i + 1, Len(value)))
    ELSE << Strip(value) >>

\* json.dumps of a list of plain texts
RECURSIVE JsonDumps(_)
JsonDumps(items) ==
    IF items = <<>> THEN "[]"
    ELSE IF Len(items) = 1 THEN "[\"" \o items[1] \o "\"]"
    ELSE "[\"" \o items[1] \o "\", " \o SubSeq(JsonDumps(Tail(items)), 2, Len(JsonDumps(Tail(items))))

\* the value edit_npc binds for the text the command line gave
EditValue(field, value) ==
    LET json_fields == {"edges_json", "hindrances_json", "gear_json", "powers_json",
                        "special_abilities_json"}
        bool_fields == {"stat_block_complete", "narrative_complete", "fg_export_ready"}
    IN
    IF field \in json_fields /\ (value = "" \/ SubSeq(value, 1, 1) # "[")
    THEN VStr(JsonDumps(SplitStripped(value)))
    ELSE IF field \in bool_fields
    THEN VInt(IF \E w \in {"1", "true", "yes", "y"} : SameLower(value, w) THEN 1 ELSE 0)
    ELSE VStr(value)

\* npc_manager.py edit <id> <field> <value>: an UPDATE the database refuses
\* is reported and changes nothing
edit_npc(npc_id, field, value) ==
    /\ npcs' = IF field \in DOMAIN NpcColType /\ npc_id \in DOMAIN npcs
               THEN [npcs EXCEPT ![npc_id][field] =
                        Stored(NpcColType[field], EditValue(field, value))]
               ELSE npcs
    /\ resp' = Response("edit_npc", 200, npc_id, 0, field :> VStr(value), <<>>)
    /\ UNCHANGED <<db, seq, cat, audit, files, page>>

(***************************************************************************)
(* Die values written through the web handlers and through the companion   *)
(* script.                                                                 *)
(***************************************************************************)
MaxDieNpcs == 1
MaxDieRows == 2
DieIds == 1..MaxDieNpcs

DieCreateBodies ==
    << ("name" :> VStr("Ann")) @@ ("agility" :> VInt(6)),
       ("name" :> VStr("Bob")) @@ ("agility" :> VInt(5)) >>
DieUpdateBodies == << ("vigor" :> VInt(8)), ("vigor" :> VStr("6")), ("agility" :> VInt(6)) >>
DieSkillBodies ==
    << PlainBody.npc_skills, ("name" :> VStr("Fighting")) @@ ("die" :> VInt(5)) >>
DieTexts == << "d8", " D6", "5", "dd" >>
EditTexts ==
    << << "agility", "8" >>, << "vigor", "5" >>, << "fg_export_ready", "Yes" >>,
       << "edges_json", " Block" >>, << "bogus", "1" >> >>

NextDie ==
    \/ \E i \in DOMAIN DieCreateBodies :
          seq.npcs < MaxDieNpcs /\ api_create_npc(DieCreateBodies[i])
    \/ \E id \in DieIds, i \in DOMAIN DieUpdateBodies : api_update_npc(id, DieUpdateBodies[i])
    \/ \E id \in DieIds, i \in DOMAIN DieSkillBodies :
          RowsInserted < MaxDieRows /\ api_add_skill(id, DieSkillBodies[i])
    \/ \E id \in DieIds, i \in DOMAIN DieTexts :
          RowsInserted < MaxDieRows /\ cli_add_skill(id, "Fighting", DieTexts[i])
    \/ \E id \in DieIds, i \in DOMAIN EditTexts :
          edit_npc(id, EditTexts[i][1], EditTexts[i][2])

SpecDie == Init /\ [][NextDie]_vars

(***************************************************************************)
(* C11  Die-value invariant.  In every reachable state the attributes of   *)
(* every NPC (agility and vigor stand for the five) and the die of every   *)
(* npc_skills row are one of 0, 4, 6, 8, 10, 12, whichever of create,      *)
(* update, add-skill (web) and add-skill / edit (CLI) produced the state.   *)
(***************************************************************************)
DieValues == {VInt(d) : d \in {0, 4, 6, 8, 10, 12}}

C11_DieInvariant ==
    /\ \A i \in DOMAIN npcs : npcs[i].agility \in DieValues /\ npcs[i].vigor \in DieValues
    /\ \A r \in db.npc_skills : r.die \in DieValues

(***************************************************************************)
(* Portraits: one image file per NPC in the portraits directory, which     *)
(* init_db_if_needed creates empty.  A file is its name and the name of    *)
(* the upload it was saved from.                                           *)
(***************************************************************************)
\* str.lower()
RECURSIVE LowerText(_)
LowerText(s) ==
    IF s = "" THEN "" ELSE Lower(SubSeq(s, 1, 1)) \o LowerText(SubSeq(s, 2, Len(s)))

\* Path(filename).name: the last component, trailing separators dropped
RECURSIVE PathName(_)
PathName(filename) ==
    IF filename # "" /\ SubSeq(filename, Len(filename), Len(filename)) = "/"
    THEN PathName(SubSeq(filename, 1, Len(filename) - 1))
    ELSE IF \E i \in 1..Len(filename) : SubSeq(filename, i, i) = "/"
    THEN LET i == Max({i \in 1..Len(filename) : SubSeq(filename, i, i) = "/"})
         IN  SubSeq(filename, i + 1, Len(filename))
    ELSE filename

\* Path(filename).suffix: from the last dot of the name on, unless that dot
\* is the first or the last character of the name
Suffix(filename) ==
    LET name == PathName(filename)
        dots == {i \in 1..Len(name) : SubSeq(name, i, i) = "."}
    IN  IF dots # {} /\ 1 < Max(dots) /\ Max(dots) < Len(name)
        THEN SubSeq(name, Max(dots), Len(name))
        ELSE ""

\* the tuple of accepted suffixes with a text format added
ImageSuffixesAndTxt == {".png", ".jpg", ".jpeg", ".webp", ".gif", ".txt"}

\* ('.png', '.jpg', '.jpeg', '.webp', '.gif')
ImageSuffixes == {".png", ".jpg", ".jpeg", ".webp", ".gif"}

\* f"npc_{npc_id}{ext}"
safe_name(npc_id, ext) == "npc_" \o TextOf(npc_id) \o ext

\* portraits_dir.glob(f"npc_{npc_id}.*")
Glob(npc_id) ==
    {f \in DOMAIN files.portraits :
        /\ Len(f) >= Len(safe_name(npc_id, "."))
        /\ SubSeq(f, 1, Len(safe_name(npc_id, "."))) = safe_name(npc_id, ".")}

\* upload: whether the request has a 'file' part, and the part's filename
api_upload_portrait(npc_id, upload) ==
    LET ext == LowerText(Suffix(upload.filename))
        kept == [f \in DOMAIN files.portraits \ Glob(npc_id) |-> files.portraits[f]]
    IN  IF ~upload.has_file \/ upload.filename = "" \/ ext \notin ImageSuffixes
        THEN /\ resp' = Response("upload_portrait", 400, npc_id, 0, upload, <<>>)
             /\ UNCHANGED <<npcs, db, seq, cat, audit, files, page>>
        ELSE /\ files' = [files EXCEPT !.portraits =
                             (safe_name(npc_id, ext) :> upload.filename) @@ kept]
             /\ npcs' = IF npc_id \in DOMAIN npcs
                        THEN [npcs EXCEPT ![npc_id].portrait_path = VStr(safe_name(npc_id, ext))]
                        ELSE npcs
             /\ resp' = Response("upload_portrait", 200, npc_id, 0, upload,
                                 [success |-> TRUE,
                                  path |-> "/portraits/" \o safe_name(npc_id, ext)])
             /\ UNCHANGED <<db, seq, cat, audit, page>>

api_delete_portrait(npc_id) ==
    LET named == IF npc_id \in DOMAIN npcs /\ npcs[npc_id].portrait_path.t = "str"
                 THEN {npcs[npc_id].portrait_path.s} \ {""}
                 ELSE {}
    IN  /\ files' = [files EXCEPT !.portraits =
                        [f \in DOMAIN @ \ named |-> @[f]]]
        /\ npcs' = IF npc_id \in DOMAIN npcs
                   THEN [npcs EXCEPT ![npc_id].portrait_path = Null]
                   ELSE npcs
        /\ resp' = Response("delete_portrait", 200, npc_id, 0, <<>>, [success |-> TRUE])
        /\ UNCHANGED <<db, seq, cat, audit, page>>

(***************************************************************************)
(* Portrait uploads and deletes for NPCs that exist and for ids that no    *)
(* NPC has, with well-formed and malformed uploads.                        *)
(***************************************************************************)
MaxPortraitNpcs == 1
PortraitIds == 1..(MaxPortraitNpcs + 1)

Uploads ==
    << [has_file |-> FALSE, filename |-> ""], [has_file |-> TRUE, filename |-> ""],
       [has_file |-> TRUE, filename |-> "a.png"], [has_file |-> TRUE, filename |-> "b/c.JPG"],
       [has_file |-> TRUE, filename |-> "d.txt"], [has_file |-> TRUE, filename |-> ".gif"],
       [has_file |-> TRUE, filename |-> "png"] >>

NextPortrait ==
    \/ seq.npcs < MaxPortraitNpcs /\ CreatePlain
    \/ \E id \in PortraitIds, i \in DOMAIN Uploads : api_upload_portrait(id, Uploads[i])
    \/ \E id \in PortraitIds : api_delete_portrait(id)
    \/ \E id \in PortraitIds : api_get_npc(id)

SpecPortrait == Init /\ [][NextPortrait]_vars

(***************************************************************************)
(* C12  Portrait naming.  After any sequence of portrait uploads and       *)
(* deletes the portraits directory holds at most one file per NPC id,      *)
(* named npc_<id>.<ext>; after a successful upload the NPC's portrait_path *)
(* is that file name and the file exists; after a portrait delete the      *)
(* file of that id is gone and portrait_path is NULL.                      *)
(***************************************************************************)
C12_PortraitNaming ==
    /\ \A f \in DOMAIN files.portraits :
          \E id \in PortraitIds, ext \in ImageSuffixes : f = safe_name(id, ext)
    /\ \A id \in PortraitIds : Cardinality(Glob(id)) <= 1
    /\ (resp.op = "upload_portrait" /\ resp.status = 200) =>
          /\ Cardinality(Glob(resp.id)) = 1
          /\ resp.id \in DOMAIN npcs => npcs[resp.id].portrait_path.s \in Glob(resp.id)
    /\ resp.op = "delete_portrait" =>
          /\ Glob(resp.id) = {}
          /\ resp.id \in DOMAIN npcs => npcs[resp.id].portrait_path = Null

(***************************************************************************)
(* C13  Portrait upload validation.  An upload with no file part, with an  *)
(* empty filename, or with an extension (compared in lower case) outside   *)
(* .png, .jpg, .jpeg, .webp, .gif is answered 400 and changes neither the  *)
(* portraits directory nor any portrait_path.                              *)
(***************************************************************************)
Malformed(upload) ==
    \/ ~upload.has_file
    \/ upload.filename = ""
    \/ LowerText(Suffix(upload.filename)) \notin {".png", ".jpg", ".jpeg", ".webp", ".gif"}

C13_UploadValidation ==
    [][(resp'.op = "upload_portrait" /\ Malformed(resp'.req)) =>
          /\ resp'.status = 400
          /\ files' = files
          /\ npcs' = npcs]_vars

\* a malformed upload was refused while the NPC's earlier portrait is in place
C13_Witness ==
    /\ resp.op = "upload_portrait" /\ resp.status = 400 /\ resp.id \in DOMAIN npcs
    /\ resp.req.has_file /\ resp.req.filename = "d.txt"
    /\ npcs[resp.id].portrait_path = VStr("npc_1.jpg")
    /\ DOMAIN files.portraits = {"npc_1.jpg"}

(***************************************************************************)
(* C14  Connection lifecycle.  Every handler that opens a SQLite           *)
(* connection has closed it when it responds, on every return path (200,   *)
(* 400 and 404 answers): no response leaves the request's connection open. *)
(***************************************************************************)
C14_ConnectionClosed == resp.status \in {200, 400, 404} => resp.conn # "open"

(***************************************************************************)
(* Transactions.  sqlite3 opens a transaction before the first INSERT or   *)
(* UPDATE of a connection and keeps it until conn.commit().  A transaction *)
(* is followed as a record: the tables as the connection sees them, and    *)
(* raised once an exception has left the function.                         *)
(***************************************************************************)
Begin == [npcs |-> npcs, db |-> db, seq |-> seq, npc_id |-> 0, raised |-> FALSE]

Raise(st) == [st EXCEPT !.raised = TRUE]

\* f.endswith('_json')
EndsWithJson(f) == Len(f) >= 5 /\ SubSeq(f, Len(f) - 4, Len(f)) = "_json"

\* INSERT INTO npcs (<the keys of the dict>): a key that is no column, no key
\* at all, a value without a binding or a NOT NULL column left NULL raises.
\* A list under a *_json key is bound as its json.dumps text.
InsertNpcOf(st, fields) ==
    LET values == [f \in DOMAIN fields |->
                      IF EndsWithJson(f) /\ fields[f].t = "list"
                      THEN VStr(JsonDumps(<<>>)) ELSE fields[f]]
        row == [c \in DOMAIN NpcColType |->
                   IF c \in DOMAIN values THEN Stored(NpcColType[c], values[c])
                   ELSE NpcDefault[c]]
        npc_id == Max({st.seq.npcs} \cup DOMAIN st.npcs) + 1
    IN  IF \/ DOMAIN fields = {}
           \/ ~(DOMAIN fields \subseteq DOMAIN NpcColType)
           \/ \E f \in DOMAIN values : ~Bindable(values[f])
           \/ \E c \in NpcNotNull : row[c].t = "null"
        THEN Raise(st)
        ELSE [st EXCEPT !.npcs = @ @@ (npc_id :> row), !.seq.npcs = npc_id, !.npc_id = npc_id]

\* one INSERT into a child table inside the transaction; npc_skills is
\* UNIQUE(npc_id, name)
InsertChildOf(st, t, vals) ==
    IF st.raised THEN st
    ELSE IF \/ \E c \in DOMAIN vals : ~Bindable(vals[c])
            \/ \E c \in NotNull[t] : Bind(vals[c]).t = "null"
            \/ foreign_keys /\ st.npc_id \notin DOMAIN st.npcs
            \/ t = "npc_skills" /\ \E r \in st.db[t] :
                                       r.npc_id = st.npc_id /\ r.name = Stored("TEXT", vals.name)
    THEN Raise(st)
    ELSE LET rid == Max({st.seq[t]} \cup {r.id : r \in st.db[t]}) + 1
         IN  [st EXCEPT !.db[t] = @ \cup {NewRow(t, rid, st.npc_id, vals)}, !.seq[t] = rid]

\* the values add_npc_from_dict binds for a skill, a weapon (its armour
\* piercing is read from the key 'ap') and a piece of armour (weight and cost
\* are left to the column defaults)
SkillOf(skill) == ("name" :> VStr(skill.name)) @@ ("die" :> VInt(parse_die(skill.die).n))

WeaponOf(w) == [Bound("npc_weapons", w) EXCEPT !.armor_piercing = Get(w, "ap", VInt(0))]

ArmorOf(a) ==
    Bound("npc_armor", [k \in DOMAIN a \ {"weight", "cost"} |-> a[k]])

\* one `for` loop of add_npc_from_dict over the items of the table t
RECURSIVE InsertAllOf(_, _, _)
InsertAllOf(st, t, items) ==
    IF items = <<>> \/ st.raised THEN st
    ELSE AndThen(
             CASE t = "npc_skills" ->
                      IF parse_die(Head(items).die).ok
                      THEN InsertChildOf(st, t, SkillOf(Head(items))) ELSE Raise(st)
               [] t = "npc_weapons" ->
                      IF Required[t] \subseteq DOMAIN Head(items)
                      THEN InsertChildOf(st, t, WeaponOf(Head(items))) ELSE Raise(st)
               [] t = "npc_armor" ->
                      IF Required[t] \subseteq DOMAIN Head(items)
                      THEN InsertChildOf(st, t, ArmorOf(Head(items))) ELSE Raise(st),
             LAMBDA next : InsertAllOf(next, t, Tail(items)))

\* npc_manager.add_npc_from_dict(data): the NPC row and its skills, weapons
\* and armour in one transaction, committed once at the end
add_npc_from_dict(data) ==
    \E before \in {Begin} :
    \E after \in {InsertAllOf(InsertAllOf(InsertAllOf(InsertNpcOf(before, data.fields),
                      "npc_skills", data.skills), "npc_weapons", data.weapons),
                      "npc_armor", data.armor)} :
    \E done \in {Committed(before, after)} :
        /\ npcs' = done.npcs
        /\ db' = done.db
        /\ seq' = done.seq
        /\ resp' = Response("add_npc_from_dict", IF done.raised THEN 500 ELSE 200,
                            after.npc_id, 0, data, <<>>)
        /\ UNCHANGED <<cat, audit, files, page>>

(***************************************************************************)
(* npc_manager.py add: the questions of add_npc_interactive, answered by   *)
(* the texts typed at the prompts.  The NPC row is committed before the    *)
(* skills and weapons are asked for, and each of those is committed as it  *)
(* is entered.                                                             *)
(***************************************************************************)
\* int(input(...) or default): the integer, or ValueError
IntInput(s, default) ==
    LET t == Strip(s)
        signed == t # "" /\ SubSeq(t, 1, 1) \in {"-", "+"}
        digits == IF signed THEN SubSeq(t, 2, Len(t)) ELSE t
    IN  IF s = "" THEN [ok |-> TRUE, n |-> default]
        ELSE IF ~IsDigits(digits) THEN [ok |-> FALSE, n |-> 0]
        ELSE [ok |-> TRUE,
              n |-> IF signed /\ SubSeq(t, 1, 1) = "-" THEN 0 - IntOf(digits) ELSE IntOf(digits)]

\* line.rsplit(None, 1) of a stripped line: the text before the last blank
\* and the word after it, or the line alone
RSplit(line) ==
    LET blanks == {i \in 1..Len(line) : SubSeq(line, i, i) = " "}
        last == CHOOSE i \in blanks : \A j \in blanks : j <= i
    IN  IF blanks = {} THEN << line >>
        ELSE << Strip(SubSeq(line, 1, last - 1)), SubSeq(line, last + 1, Len(line)) >>

\* the loop of add_skills_interactive over the lines typed: a blank line
\* ends it, a line of one word is asked again, a die parse_die rejects
\* raises, and an INSERT the database refuses is reported and skipped
RECURSIVE add_skills_interactive(_, _)
add_skills_interactive(st, lines) ==
    IF lines = <<>> \/ Strip(Head(lines)) = "" \/ st.raised THEN st
    ELSE AndThen(
             LET parts == RSplit(Strip(Head(lines)))
             IN  IF Len(parts) # 2 THEN st
                 ELSE IF ~parse_die(parts[2]).ok THEN Raise(st)
                 ELSE [InsertChildOf(st, "npc_skills",
                                     SkillOf([name |-> parts[1], die |-> parts[2]]))
                          EXCEPT !.raised = FALSE],
             LAMBDA next : add_skills_interactive(next, Tail(lines)))

\* damage_str.replace('Str', f'd{str_die}')
RECURSIVE ReplaceStr(_, _)
ReplaceStr(s, die) ==
    IF Len(s) < 3 THEN s
    ELSE IF SubSeq(s, 1, 3) = "Str" THEN die \o ReplaceStr(SubSeq(s, 4, Len(s)), die)
    ELSE SubSeq(s, 1, 1) \o ReplaceStr(SubSeq(s, 2, Len(s)), die)

\* the loop of add_weapon_interactive: a blank name ends it
RECURSIVE add_weapon_interactive(_, _, _)
add_weapon_interactive(st, str_die, weapons) ==
    IF weapons = <<>> \/ Strip(Head(weapons).name) = "" \/ st.raised THEN st
    ELSE AndThen(
             LET w == Head(weapons)
                 damage_str == Strip(w.damage)
                 damagedice == IF Strip(w.override) # "" THEN Strip(w.override)
                               ELSE IF Includes(damage_str, "Str") /\ str_die > 0
                               THEN ReplaceStr(damage_str, "d" \o TextOf(str_die))
                               ELSE damage_str
             IN  IF ~IntInput(w.ap, 0).ok THEN Raise(st)
                 ELSE InsertChildOf(st, "npc_weapons",
                          [name |-> VStr(Strip(w.name)), damage_str |-> VStr(damage_str),
                           damagedice |-> VStr(damagedice),
                           armor_piercing |-> VInt(IntInput(w.ap, 0).n),
                           trait_type |-> VStr("Melee"), range |-> Null,
                           reach |-> VInt(0), notes |-> Null]),
             LAMBDA next : add_weapon_interactive(next, str_die, Tail(weapons)))

add_npc_interactive(answers) ==
    IF \/ Strip(answers.name) = ""
       \/ Strip(answers.region) \notin {"Ammaria", "Saltlands", "Vinlands", "Concordium",
                                        "Glasrya", "Global"}
       \/ Strip(answers.tier) \notin {"Wild Card", "Extra", "Walk-On"}
    THEN /\ resp' = Response("add_npc_interactive", 400, 0, 0, answers, <<>>)
         /\ UNCHANGED <<npcs, db, seq, cat, audit, files, page>>
    ELSE IF ~IntInput(answers.agility, 0).ok \/ ~IntInput(answers.strength, 0).ok
    THEN Fails("add_npc_interactive", 0, 0, answers)
    ELSE \E created \in {InsertNpcOf(Begin,
                             [name |-> VStr(Strip(answers.name)),
                              tier |-> VStr(Strip(answers.tier)),
                              agility |-> VInt(IntInput(answers.agility, 0).n)])} :
         \E skilled \in {add_skills_interactive(created, answers.skills)} :
         \E done \in {add_weapon_interactive(skilled, IntInput(answers.strength, 0).n,
                                             answers.weapons)} :
             /\ npcs' = done.npcs
             /\ db' = done.db
             /\ seq' = done.seq
             /\ resp' = Response("add_npc_interactive", IF done.raised THEN 500 ELSE 200,
                                 created.npc_id, 0, answers, <<>>)
             /\ UNCHANGED <<cat, audit, files, page>>

(***************************************************************************)
(* Operations of several statements: the migration, the scripted import    *)
(* and the interactive add, over a database of at most MaxAtomicNpcs NPCs. *)
(***************************************************************************)
MaxAtomicNpcs == 2
AtomicIds == 1..MaxAtomicNpcs

AtomicBodies ==
    << ("name" :> VStr("Ann")) @@ ("edges_json" :> LegacyText("e1")),
       ("name" :> VStr("Bob")) @@ ("edges_json" :> VStr("oops")),
       ("name" :> VStr("Cat")) @@ ("hindrances_json" :> LegacyText("h1"))
           @@ ("powers_json" :> VStr("5")) >>

Dicts ==
    << [fields |-> ("name" :> VStr("Cy")) @@ ("edges_json" :> ListV),
        skills |-> << [name |-> "Fighting", die |-> "d8"], [name |-> "Shooting", die |-> " D6"] >>,
        weapons |-> << ("name" :> VStr("Sword")) @@ ("damage_str" :> VStr("Str+d8"))
                          @@ ("damagedice" :> VStr("d6+d8")) @@ ("ap" :> VInt(2)) >>,
        armor |-> << ("name" :> VStr("Mail")) @@ ("protection" :> VInt(2))
                        @@ ("weight" :> VInt(8)) >>],
       [fields |-> ("name" :> VStr("Di")),
        skills |-> << [name |-> "Fighting", die |-> "d8"], [name |-> "Notice", die |-> "dd"] >>,
        weapons |-> <<>>, armor |-> <<>>],
       [fields |-> ("name" :> VStr("Ed")),
        skills |-> << [name |-> "Fighting", die |-> "6"] >>,
        weapons |-> << ("name" :> VStr("Bow")) >>, armor |-> <<>>],
       [fields |-> ("name" :> VStr("Flo")),
        skills |-> <<>>, weapons |-> <<>>,
        armor |-> << ("name" :> VStr("Hide")), ("name" :> VStr("Helm")) @@ ("protection" :> Null) >>],
       [fields |-> ("name" :> VStr("Gus")) @@ ("bogus" :> VInt(1)),
        skills |-> << [name |-> "Fighting", die |-> "6"] >>, weapons |-> <<>>, armor |-> <<>>] >>

Answers ==
    << [name |-> "Hal", region |-> "Global", tier |-> "Extra", agility |-> "6", strength |-> "6",
        skills |-> << "Fighting 8", "Notice x", "Shooting 6" >>, weapons |-> <<>>],
       [name |-> "Ida", region |-> "Ammaria", tier |-> "Wild Card", agility |-> "", strength |-> "6",
        skills |-> << "Fighting 8", "Fighting 6", "Athletics", "", "Notice 4" >>,
        weapons |-> << [name |-> "Axe", damage |-> "Str+d6", override |-> "", ap |-> "1"],
                       [name |-> "Bow", damage |-> "2d6", override |-> "", ap |-> "x"] >>],
       [name |-> "Jo", region |-> "Mars", tier |-> "Extra", agility |-> "6", strength |-> "",
        skills |-> <<>>, weapons |-> <<>>],
       [name |-> "Kai", region |-> "Global", tier |-> "Extra", agility |-> "six", strength |-> "",
        skills |-> <<>>, weapons |-> <<>>] >>

AtomicAllowed == NextRowid("npcs", DOMAIN npcs) <= MaxAtomicNpcs

NextAtomic ==
    \/ \E i \in DOMAIN AtomicBodies : AtomicAllowed /\ api_create_npc(AtomicBodies[i])
    \/ \E i \in DOMAIN Dicts : AtomicAllowed /\ add_npc_from_dict(Dicts[i])
    \/ \E i \in DOMAIN Answers : AtomicAllowed /\ add_npc_interactive(Answers[i])
    \/ api_migration_execute
    \/ \E id \in AtomicIds : api_delete_npc(id)

SpecAtomic == Init /\ [][NextAtomic]_vars

(***************************************************************************)
(* C15  All-or-nothing.  An operation that fails leaves none of its writes *)
(* behind: after a failing api_migration_execute or add_npc_from_dict the  *)
(* tables and the AUTOINCREMENT counters are what they were; an            *)
(* add_npc_from_dict that returns has stored the NPC with every skill,     *)
(* weapon and piece of armour of the dict; and a migration that returns    *)
(* has cleared the legacy JSON of every NPC it gave managed rows.  Stated  *)
(* of every operation but add_npc_interactive, which commits the NPC row   *)
(* and then each skill and weapon on its own.                              *)
(***************************************************************************)
Untouched == npcs' = npcs /\ db' = db /\ seq' = seq

\* as stated: of every mutating operation
C15_AsStated == [][resp'.status = 500 => Untouched]_vars

C15_AllOrNothing ==
    [][/\ (resp'.status = 500 /\ resp'.op # "add_npc_interactive") => Untouched
       /\ (resp'.op = "add_npc_from_dict" /\ resp'.status = 200) =>
              /\ DOMAIN npcs' = DOMAIN npcs \cup {resp'.id} /\ resp'.id \notin DOMAIN npcs
              /\ Cardinality({r \in db'.npc_skills : r.npc_id = resp'.id}) = Len(resp'.req.skills)
              /\ Cardinality({r \in db'.npc_weapons : r.npc_id = resp'.id}) = Len(resp'.req.weapons)
              /\ Cardinality({r \in db'.npc_armor : r.npc_id = resp'.id}) = Len(resp'.req.armor)
       /\ (resp'.op = "migration_execute" /\ resp'.status = 200) =>
              \A id \in DOMAIN npcs' :
                  (\E t \in {"npc_hindrances", "npc_edges", "npc_powers"} :
                       \E r \in db'[t] \ db[t] : r.npc_id = id)
                  => \A i \in DOMAIN LegacyColumns : npcs'[id][LegacyColumns[i]] = VStr("[]")]_vars

\* the migration raised at the second NPC after it had migrated the first:
\* the first NPC has its legacy edges and no managed row
C15_Witness ==
    /\ resp.op = "migration_execute" /\ resp.status = 500
    /\ DOMAIN npcs = {1, 2}
    /\ npcs[1].edges_json = LegacyText("e1")
    /\ npcs[2].edges_json = VStr("oops")
    /\ db.npc_edges = {} /\ seq.npc_edges = 0

(***************************************************************************)
(* Backup and restore.  The database is one file, tribute_lands_npcs.db;   *)
(* a backup is a copy of it in the backup directory, named after the       *)
(* second it was taken in.  The handlers catch every exception and answer  *)
(* 200 with success false.                                                 *)
(***************************************************************************)
\* the content of the database file
DatabaseFile == [npcs |-> npcs, db |-> db, seq |-> seq]

\* _datetime.now().strftime('%Y%m%d_%H%M%S') at the second t of the clock
Stamp(t) == "20260101_12000" \o TextOf(t)

backup_name(t) == "tribute_lands_npcs_" \o Stamp(t) \o ".db"
safety_name(t) == "tribute_lands_npcs_pre_restore_" \o Stamp(t) \o ".db"

\* backup_dir / name for the database file itself (the default backup
\* directory is APP_DIR / "backups")
DatabaseFromBackups == "../tribute_lands_npcs.db"

\* shutil.copy2(DB_PATH, backup_dir / name): the file is made or overwritten
Copied(backups, name, content) ==
    [f \in DOMAIN backups \cup {name} |-> IF f = name THEN content ELSE backups[f]]

BackupAnswer(op, name, success, safety) ==
    Response(op, 200, 0, 0, name, [success |-> success, safety |-> safety])

\* a second passes
Tick(limit) ==
    /\ files.clock < limit
    /\ files' = [files EXCEPT !.clock = @ + 1]
    /\ UNCHANGED <<npcs, db, seq, resp, cat, audit, page>>

\* POST /api/backups
api_create_backup ==
    /\ files' = [files EXCEPT !.backups = Copied(@, backup_name(files.clock), DatabaseFile)]
    /\ resp' = BackupAnswer("create_backup", backup_name(files.clock), TRUE, "")
    /\ UNCHANGED <<npcs, db, seq, cat, audit, page>>

\* POST /api/backups/restore {name}; copy_ok: whether the safety copy can be
\* written.  Copying the database file onto itself raises SameFileError.
api_restore_backup(name, copy_ok) ==
    LET safety == safety_name(files.clock)
        exists == name \in DOMAIN files.backups \/ name = DatabaseFromBackups
    IN  IF name = "" \/ ~exists \/ ~copy_ok
        THEN /\ resp' = BackupAnswer("restore_backup", name, FALSE, "")
             /\ UNCHANGED <<npcs, db, seq, cat, audit, files, page>>
        ELSE \E saved \in {Copied(files.backups, safety, DatabaseFile)} :
                 /\ files' = [files EXCEPT !.backups = saved]
                 /\ IF name = DatabaseFromBackups
                    THEN /\ resp' = BackupAnswer("restore_backup", name, FALSE, "")
                         /\ UNCHANGED <<npcs, db, seq>>
                    ELSE /\ npcs' = saved[name].npcs
                         /\ db' = saved[name].db
                         /\ seq' = saved[name].seq
                         /\ resp' = BackupAnswer("restore_backup", name, TRUE, safety)
                 /\ UNCHANGED <<cat, audit, page>>

\* POST /api/backups/delete {name}
api_delete_backup(name) ==
    IF name = "" \/ name \notin DOMAIN files.backups
    THEN /\ resp' = BackupAnswer("delete_backup", name, FALSE, "")
         /\ UNCHANGED <<npcs, db, seq, cat, audit, files, page>>
    ELSE /\ files' = [files EXCEPT !.backups = [f \in DOMAIN @ \ {name} |-> @[f]]]
         /\ resp' = BackupAnswer("delete_backup", name, TRUE, "")
         /\ UNCHANGED <<npcs, db, seq, cat, audit, page>>

MaxRestoreNpcs == 1
MaxClock == 2

BackupNames ==
    {"", "missing.db", DatabaseFromBackups}
        \cup {backup_name(t) : t \in 1..MaxClock} \cup {safety_name(t) : t \in 1..MaxClock}

NextRestore ==
    \/ \E i \in {2, 3} :
          /\ NextRowid("npcs", DOMAIN npcs) <= MaxRestoreNpcs
          /\ api_create_npc(CreateBodies[i])
    \/ Tick(MaxClock)
    \/ api_create_backup
    \/ \E name \in BackupNames, copy_ok \in BOOLEAN : api_restore_backup(name, copy_ok)
    \/ \E name \in BackupNames : api_delete_backup(name)

SpecRestore == Init /\ [][NextRestore]_vars

(***************************************************************************)
(* C16  Restore is preceded by a safety backup.  After a successful        *)
(* api_restore_backup the database equals the backup that was chosen and   *)
(* the pre_restore safety file equals the database as it was before; when  *)
(* the name is empty or names no existing file, or the safety copy fails,  *)
(* the database is not overwritten.                                        *)
(***************************************************************************)
C16_SafetyBackupThenRestore ==
    [][(resp'.op = "restore_backup" /\ files'.clock = files.clock) =>
          IF resp'.out.success
          THEN /\ resp'.req \in DOMAIN files.backups
               /\ DatabaseFile' = files.backups[resp'.req]
               /\ resp'.out.safety \in DOMAIN files'.backups
               /\ files'.backups[resp'.out.safety] = DatabaseFile
          ELSE DatabaseFile' = DatabaseFile]_vars

(***************************************************************************)
(* Migration of NPCs whose legacy items were partly entered again as       *)
(* managed records before the migration ran.                               *)
(***************************************************************************)
MaxMigrateNpcs == 2
MaxMigrateAdds == 2
MigrateIds == 1..MaxMigrateNpcs

MigrateBodies ==
    << ("name" :> VStr("Ann")) @@ ("edges_json" :> LegacyText("e1")),
       ("name" :> VStr("Bob")) @@ ("hindrances_json" :> LegacyText("h1"))
           @@ ("edges_json" :> LegacyText("e2")) @@ ("powers_json" :> LegacyText("p1")) >>

NextMigrate ==
    \/ \E i \in DOMAIN MigrateBodies :
          /\ NextRowid("npcs", DOMAIN npcs) <= MaxMigrateNpcs
          /\ api_create_npc(MigrateBodies[i])
    \/ \E id \in MigrateIds :
          /\ seq.npc_edges < MaxMigrateAdds
          /\ api_add_npc_edge(id, "name" :> VStr("Block"))
    \/ api_migration_preview
    \/ api_migration_execute

SpecMigrate == Init /\ [][NextMigrate]_vars

(***************************************************************************)
(* C17  Legacy fields are cleared by migration.  After a successful        *)
(* api_migration_execute the hindrances_json, edges_json and powers_json   *)
(* of every NPC that had legacy items are the empty list, and a following  *)
(* api_migration_preview reports no NPC and zero legacy items.             *)
(***************************************************************************)
C17_LegacyCleared ==
    [][(resp'.op = "migration_execute" /\ resp'.status = 200) =>
          /\ \A id \in DOMAIN npcs :
                 ~NothingLegacy(npcs[id]) =>
                     \A i \in DOMAIN LegacyColumns : npcs'[id][LegacyColumns[i]] = VStr("[]")
          /\ MigrationPreview'.status = 200
          /\ MigrationPreview'.out.npcs = <<>>
          /\ MigrationPreview'.out.total_items = 0]_vars

(***************************************************************************)
(* The text of the Fantasy Grounds export.  npc_to_fg_xml writes one line  *)
(* per element; the lines are kept as the characters it writes.  A column  *)
(* the model does not follow holds its default (NULL or 0), for which the  *)
(* function writes no element.                                             *)
(***************************************************************************)
\* xml.sax.saxutils.escape
RECURSIVE escape(_)
escape(text) ==
    IF text = "" THEN ""
    ELSE (CASE SubSeq(text, 1, 1) = "&" -> "&amp;"
            [] SubSeq(text, 1, 1) = "<" -> "&lt;"
            [] SubSeq(text, 1, 1) = ">" -> "&gt;"
            [] OTHER -> SubSeq(text, 1, 1)) \o escape(SubSeq(text, 2, Len(text)))

\* f'{value}' of a column value
Shown(v) == IF v.t = "int" THEN TextOf(v.n) ELSE IF v.t = "null" THEN "None" ELSE v.s

\* `if value`
Truthy(v) == (v.t = "int" /\ v.n # 0) \/ (v.t = "str" /\ v.s # "")

xml_escape(v) == IF ~Truthy(v) THEN "" ELSE escape(Shown(v))

\* re.sub(r'[^a-zA-Z0-9_]', '_', name.lower()), runs of '_' made one
RECURSIVE Cleaned(_)
Cleaned(name) ==
    IF name = "" THEN ""
    ELSE LET c == Lower(SubSeq(name, 1, 1))
             rest == Cleaned(SubSeq(name, 2, Len(name)))
             kept == \E i \in 1..37 : SubSeq("abcdefghijklmnopqrstuvwxyz0123456789_", i, i) = c
         IN  IF kept /\ c # "_" THEN c \o rest
             ELSE IF rest # "" /\ SubSeq(rest, 1, 1) = "_" THEN rest
             ELSE "_" \o rest

\* str.strip('_')
RECURSIVE StripUnderscores(_)
StripUnderscores(s) ==
    IF s # "" /\ SubSeq(s, 1, 1) = "_" THEN StripUnderscores(SubSeq(s, 2, Len(s)))
    ELSE IF s # "" /\ SubSeq(s, Len(s), Len(s)) = "_"
    THEN StripUnderscores(SubSeq(s, 1, Len(s) - 1))
    ELSE s

make_id(name) == StripUnderscores(Cleaned(name))

\* `value and value > 0`: comparing a text with 0 raises TypeError
Positive(v) == v.t = "int" /\ v.n > 0
RaisesCompared(v) == v.t = "str" /\ v.s # ""

die_str(v) == IF Positive(v) THEN "d" \o Shown(v) ELSE ""

\* ", ".join(items)
RECURSIVE Joined(_)
Joined(items) ==
    IF items = <<>> THEN ""
    ELSE IF Len(items) = 1 THEN items[1]
    ELSE items[1] \o ", " \o Joined(Tail(items))

\* f"id-{idx:05d}"
IdOf(idx) == "id-0000" \o TextOf(idx)

Element(indent, tag, type, text) ==
    indent \o "<" \o tag \o " type=\"" \o type \o "\">" \o text \o "</" \o tag \o ">"

\* the lines of one skill and of one weapon
SkillLines(idx, sk) ==
    << "        <" \o IdOf(idx) \o ">",
       Element("            ", "name", "string", xml_escape(sk.name)),
       Element("            ", "skill", "dice", die_str(sk.die)),
       Element("            ", "adjustment", "number", "0"),
       Element("            ", "skillmod", "number", "0"),
       "        </" \o IdOf(idx) \o ">" >>

WeaponLines(idx, w) ==
    << "        <" \o IdOf(idx) \o ">",
       Element("            ", "name", "string", xml_escape(w.name)),
       Element("            ", "damage", "string", xml_escape(w.damage_str)),
       Element("            ", "damagedice", "dice", xml_escape(w.damagedice)),
       Element("            ", "damagebonus", "number", "0") >>
    \o (IF Positive(w.armor_piercing)
        THEN << Element("            ", "armorpiercing", "number", Shown(w.armor_piercing)) >>
        ELSE <<>>)
    \o << Element("            ", "traittype", "string", Shown(w.trait_type)),
          Element("            ", "traitcount", "number", "0"),
          Element("            ", "fumble", "number", "1") >>
    \o (IF Truthy(w.range)
        THEN << Element("            ", "range", "string", xml_escape(w.range)) >> ELSE <<>>)
    \o << Element("            ", "reach", "number",
                  IF Positive(w.reach) THEN Shown(w.reach) ELSE "0") >>
    \o (IF Truthy(w.notes)
        THEN << Element("            ", "notes", "string", xml_escape(w.notes)) >> ELSE <<>>)
    \o << "            <bonuslist />",
          "            <link type=\"windowreference\"><class>weapon</class><recordname /></link>",
          "        </" \o IdOf(idx) \o ">" >>

RECURSIVE Flattened(_)
Flattened(groups) == IF groups = <<>> THEN <<>> ELSE Head(groups) \o Flattened(Tail(groups))

\* npc_to_fg_xml(conn, npc, indent="    "): the lines, or raised when json.loads
\* or a comparison of a text with a number raises
FgXmlText(npc_id) ==
    LET npc == npcs[npc_id]
        id == make_id(npc.name.s)
        skills == Select(RowsOf("npc_skills", npc_id), ByName)
        weapons == Select(RowsOf("npc_weapons", npc_id), ByRowid)
        hasPP == Positive(npc.power_points)
        Listed(tag, f) ==
            IF LegacyLine(npc[f]).list = <<>> THEN <<>>
            ELSE << Element("        ", tag, "string",
                            escape(Joined(LegacyLine(npc[f]).list))) >>
        Die(attr) == IF Positive(npc[attr])
                     THEN << Element("        ", attr, "dice", die_str(npc[attr])) >> ELSE <<>>
        Number(tag, f, default) ==
            Element("        ", tag, "number", IF Truthy(npc[f]) THEN Shown(npc[f]) ELSE default)
        desc_parts ==
            (IF Truthy(npc.quote)
             THEN "<p><i>&quot;" \o xml_escape(npc.quote) \o "&quot;</i></p>" ELSE "")
            \o (IF Truthy(npc.tactics)
                THEN "<p><b>Tactics:</b> " \o xml_escape(npc.tactics) \o "</p>" ELSE "")
        raised ==
            \/ \E f \in {"agility", "vigor", "toughness_armor", "power_points"} :
                   RaisesCompared(npc[f])
            \/ \E sk \in RowsOf("npc_skills", npc_id) : RaisesCompared(sk.die)
            \/ \E w \in RowsOf("npc_weapons", npc_id) :
                   RaisesCompared(w.armor_piercing) \/ RaisesCompared(w.reach)
            \/ \E f \in {"edges_json", "hindrances_json", "gear_json"}
                         \cup (IF hasPP THEN {"powers_json"} ELSE {}) :
                   LegacyLine(npc[f]).kind = "error"
    IN  IF raised THEN [raised |-> TRUE, id |-> id, lines |-> <<>>]
        ELSE [raised |-> FALSE, id |-> id, lines |->
            << "    <" \o id \o ">",
               Element("        ", "name", "string", xml_escape(npc.name)) >>
            \o (IF npc.tier = VStr("Wild Card")
                THEN << Element("        ", "wildcard", "number", "1"),
                        Element("        ", "bennies", "number", "3") >>
                ELSE <<>>)
            \o Die("agility") \o Die("vigor")
            \o << Number("pace", "pace", "6"), Number("parry", "parry", "2"),
                  Number("toughness", "toughness", "5") >>
            \o (IF Positive(npc.toughness_armor)
                THEN << Number("toughnessarmor", "toughness_armor", "0") >> ELSE <<>>)
            \o (IF skills = <<>> THEN <<>>
                ELSE << "        <skills>" >>
                     \o Flattened([i \in DOMAIN skills |-> SkillLines(i, skills[i])])
                     \o << "        </skills>" >>)
            \o Listed("edges", "edges_json")
            \o Listed("hindrances", "hindrances_json")
            \o Listed("gear", "gear_json")
            \o (IF weapons = <<>> THEN <<>>
                ELSE << "        <weaponlist>" >>
                     \o Flattened([i \in DOMAIN weapons |-> WeaponLines(i, weapons[i])])
                     \o << "        </weaponlist>" >>)
            \o (IF hasPP
                THEN << Number("powerpoints", "power_points", "0") >> \o Listed("powers", "powers_json")
                ELSE <<>>)
            \o (IF desc_parts = "" THEN <<>>
                ELSE << Element("        ", "text", "formattedtext", desc_parts) >>)
            \o << Element("        ", "token", "token", "tokens/" \o id \o ".png"),
                  "    </" \o id \o ">" >>]

\* GET /api/npcs/<id>/fgxml, with the text of the answer
api_fg_xml_text(npc_id) ==
    /\ resp' = IF npc_id \notin DOMAIN npcs
               THEN Response("fgxml_text", 404, npc_id, 0, <<>>, <<>>)
               ELSE IF FgXmlText(npc_id).raised
               THEN Response("fgxml_text", 500, npc_id, 0, <<>>, <<>>)
               ELSE Response("fgxml_text", 200, npc_id, 0, <<>>,
                             [id |-> FgXmlText(npc_id).id, xml |-> FgXmlText(npc_id).lines])
    /\ UNCHANGED <<npcs, db, seq, cat, audit, files, page>>

(***************************************************************************)
(* Well-formedness of a text of XML, read line by line: every tag has a    *)
(* valid element name, every closing tag closes the element opened last,   *)
(* and a '&' in the text starts one of the predefined entities.            *)
(***************************************************************************)
NameStart == "abcdefghijklmnopqrstuvwxyzABCDEFGHIJKLMNOPQRSTUVWXYZ_:"
NameChar == NameStart \o "0123456789-."

Among(c, chars) == \E i \in 1..Len(chars) : SubSeq(chars, i, i) = c

IsXmlName(n) ==
    /\ n # ""
    /\ Among(SubSeq(n, 1, 1), NameStart)
    /\ \A i \in 1..Len(n) : Among(SubSeq(n, i, i), NameChar)

\* the index of the first character of s among chars, 0 without one
FirstAmong(s, chars) ==
    LET at == {i \in 1..Len(s) : Among(SubSeq(s, i, i), chars)}
    IN  IF at = {} THEN 0 ELSE CHOOSE i \in at : \A j \in at : i <= j

StartsWith(s, prefix) == Len(s) >= Len(prefix) /\ SubSeq(s, 1, Len(prefix)) = prefix

\* the element name of the inside of a tag: the text before its first blank
TagName(tag) ==
    IF FirstAmong(tag, " ") = 0 THEN tag ELSE SubSeq(tag, 1, FirstAmong(tag, " ") - 1)

Malformed_ == [ok |-> FALSE, open |-> <<>>]

\* reads s with the elements open (innermost first) and answers the
\* elements left open
RECURSIVE Scanned(_, _)
Scanned(s, open) ==
    LET i == FirstAmong(s, "<&")
        rest == SubSeq(s, i, Len(s))
        j == FirstAmong(rest, ">")
        tag == SubSeq(rest, 2, j - 1)
        after == SubSeq(rest, j + 1, Len(rest))
    IN  IF i = 0 THEN [ok |-> TRUE, open |-> open]
        ELSE IF SubSeq(rest, 1, 1) = "&"
        THEN IF \E e \in {"&amp;", "&lt;", "&gt;", "&quot;", "&apos;"} : StartsWith(rest, e)
             THEN Scanned(SubSeq(rest, 2, Len(rest)), open)
             ELSE Malformed_
        ELSE IF j = 0 \/ FirstAmong(tag, "<") # 0 THEN Malformed_
        ELSE IF StartsWith(tag, "/")
        THEN IF open # <<>> /\ Head(open) = SubSeq(tag, 2, Len(tag))
             THEN Scanned(after, Tail(open))
             ELSE Malformed_
        ELSE IF ~IsXmlName(TagName(tag)) THEN Malformed_
        ELSE IF SubSeq(tag, Len(tag), Len(tag)) = "/" THEN Scanned(after, open)
        ELSE Scanned(after, << TagName(tag) >> \o open)

RECURSIVE ScannedLines(_, _)
ScannedLines(lines, st) ==
    IF lines = <<>> \/ ~st.ok THEN st
    ELSE AndThen(Scanned(Head(lines), st.open), LAMBDA next : ScannedLines(Tail(lines), next))

WellFormed(lines) ==
    \E end \in {ScannedLines(lines, [ok |-> TRUE, open |-> <<>>])} : end.ok /\ end.open = <<>>

MaxXmlNpcs == 1
MaxXmlRows == 2
XmlIds == 1..MaxXmlNpcs

XmlBodies ==
    << ("name" :> VStr("Ann")) @@ ("tier" :> VStr("Wild Card")) @@ ("agility" :> VInt(6))
           @@ ("quote" :> VStr("R&D")) @@ ("edges_json" :> LegacyText("e2"))
           @@ ("power_points" :> VInt(5)) @@ ("powers_json" :> LegacyText("p1")),
       ("name" :> VStr("R&D")),
       ("name" :> VStr("Bob")) @@ ("agility" :> VStr("x")),
       ("name" :> VStr("Ann")) @@ ("pace" :> VStr("x")),
       ("name" :> VStr("42 Smith")),
       ("name" :> VStr("!!!")) >>

XmlSkills ==
    << ("name" :> VStr("Fighting")) @@ ("die" :> VInt(8)),
       ("name" :> VStr("R&D")) @@ ("die" :> VInt(0)) >>

XmlWeapons ==
    << ("name" :> VStr("Axe")) @@ ("damage_str" :> VStr("Str+d6")) @@ ("damagedice" :> VStr("d6"))
           @@ ("armor_piercing" :> VInt(1)) @@ ("notes" :> VStr("R&D")),
       ("name" :> VStr("R&D")) @@ ("damage_str" :> VStr("d6")) @@ ("damagedice" :> VStr("d6"))
           @@ ("range" :> VStr("5")),
       ("name" :> VStr("Axe")) @@ ("damage_str" :> VStr("d6")) @@ ("damagedice" :> VStr("d6"))
           @@ ("trait_type" :> VStr("R&D")) >>

XmlAllowed == seq.npc_skills + seq.npc_weapons < MaxXmlRows

NextXml ==
    \/ \E i \in DOMAIN XmlBodies :
          /\ NextRowid("npcs", DOMAIN npcs) <= MaxXmlNpcs
          /\ api_create_npc(XmlBodies[i])
    \/ \E id \in XmlIds, i \in DOMAIN XmlSkills : XmlAllowed /\ api_add_skill(id, XmlSkills[i])
    \/ \E id \in XmlIds, i \in DOMAIN XmlWeapons : XmlAllowed /\ api_add_weapon(id, XmlWeapons[i])
    \/ \E id \in XmlIds : api_fg_xml_text(id)

SpecXml == Init /\ [][NextXml]_vars

(***************************************************************************)
(* C18  FG XML export is well-formed.  For every NPC the text of           *)
(* npc_to_fg_xml closes each opened element in properly nested order, the  *)
(* wrapper element name make_id makes of the NPC name is a non-empty valid *)
(* XML element name, and every text value taken from the database is       *)
(* escaped.                                                                *)
(***************************************************************************)
C18_FgXmlWellFormed ==
    (resp.op = "fgxml_text" /\ resp.status = 200) =>
        /\ IsXmlName(resp.out.id)
        /\ WellFormed(resp.out.xml)

(***************************************************************************)
(* Startup.  init_db_if_needed runs before the first request is served.    *)
(* On an existing database file it reads sqlite_master and creates the     *)
(* tables it misses, then adds the portrait_path column when PRAGMA        *)
(* table_info(npcs) does not list it.  (Without a database file it runs    *)
(* schema.sql instead; that branch is not followed here.)                  *)
(***************************************************************************)
\* the tables the startup migration declares
MigratedTables == {"npc_armor", "npc_gear", "npc_hindrances", "npc_edges", "npc_powers"}

\* DROP TABLE followed by CREATE TABLE: the table is left empty
DroppedAndCreated(t, tables, rows) == {}

\* `if t not in tables: CREATE TABLE IF NOT EXISTS t`: the rows of t afterwards
CreatedIfMissing(t, tables, rows) == IF t \in tables THEN rows ELSE {}

\* the schema after the function
Migrated(database) ==
    [tables |-> database.tables \cup MigratedTables, portrait_path |-> TRUE]

init_db_if_needed ==
    /\ db' = [t \in DOMAIN db |->
                 IF t \in MigratedTables
                 THEN CreatedIfMissing(t, files.database.tables, db[t]) ELSE db[t]]
    /\ files' = [files EXCEPT !.database = Migrated(@)]
    /\ resp' = Response("init_db_if_needed", 200, 0, 0, <<>>,
                        [created |-> MigratedTables \ files.database.tables,
                         column_added |-> ~files.database.portrait_path])
    /\ UNCHANGED <<npcs, seq, cat, audit, page>>

\* a database file of an earlier version: schema.sql's tables, some of the
\* later tables, with or without the portrait column, empty or with one NPC
\* and one row in each of the tables of `filled`
OldDatabase(present, portrait, populated, filled) ==
    /\ files = [portraits |-> <<>>, backups |-> <<>>, clock |-> 1,
                database |-> [tables |-> ({"npcs"} \cup Tables) \ (MigratedTables \ present),
                              portrait_path |-> portrait]]
    /\ npcs = IF populated
              THEN 1 :> [NpcDefault EXCEPT !.name = VStr("Ann"),
                                           !.portrait_path =
                                               IF portrait THEN VStr("npc_1.png") ELSE Null]
              ELSE <<>>
    /\ db = [t \in Tables |->
                IF populated /\ t \in filled /\ t \in files.database.tables
                THEN {NewRow(t, 1, 1, Bound(t, PlainBody[t]))} ELSE {}]
    /\ seq = [t \in {"npcs"} \cup Tables |->
                 IF t = "npcs" THEN (IF populated THEN 1 ELSE 0)
                 ELSE IF db[t] # {} THEN 1 ELSE 0]

InitStartup ==
    /\ \E present \in SUBSET MigratedTables, portrait \in BOOLEAN, populated \in BOOLEAN,
          filled \in {{}, {"npc_skills"}, Tables} :
          OldDatabase(present, portrait, populated, filled)
    /\ resp = NoResponse
    /\ cat = Catalogues
    /\ audit = [id |-> 0, n |-> <<>>, findings |-> <<>>]
    /\ page = NoPage

MaxStartupNpcs == 2
MaxStartupRows == 2

\* requests are served once the startup has run
Serving == files.database = Migrated(files.database)

NextStartup ==
    \/ init_db_if_needed
    \/ /\ Serving
       /\ NextRowid("npcs", DOMAIN npcs) <= MaxStartupNpcs
       /\ api_create_npc(CreateBodies[3])
    \/ \E id \in 1..MaxStartupNpcs :
          /\ Serving
          /\ seq.npc_armor < MaxStartupRows
          /\ api_add_armor(id, PlainBody.npc_armor)

SpecStartup == InitStartup /\ [][NextStartup]_vars

(***************************************************************************)
(* C19  Startup migration is additive and idempotent.  init_db_if_needed   *)
(* on an existing database only creates the tables that are missing        *)
(* (npc_armor, npc_gear, npc_hindrances, npc_edges, npc_powers) and the    *)
(* portrait_path column, never changes or deletes an existing row, and a   *)
(* second run changes nothing.                                             *)
(***************************************************************************)
C19_StartupAdditiveIdempotent ==
    [][resp'.op = "init_db_if_needed" =>
          /\ npcs' = npcs /\ db' = db /\ seq' = seq
          /\ files.database.tables \subseteq files'.database.tables
          /\ files'.database.tables \ files.database.tables
                 = resp'.out.created
          /\ resp'.out.created \subseteq MigratedTables
          /\ MigratedTables \subseteq files'.database.tables
          /\ files'.database.portrait_path
          /\ files'.portraits = files.portraits /\ files'.backups = files.backups
          /\ Migrated(files'.database) = files'.database
          /\ \A t \in MigratedTables :
                 CreatedIfMissing(t, files'.database.tables, db'[t]) = db'[t]]_vars

\* the startup added tables and the column to a database that held an NPC
\* with rows in the tables it already had
C19_Witness ==
    /\ resp.op = "init_db_if_needed"
    /\ resp.out.created = {"npc_gear", "npc_powers"} /\ resp.out.column_added
    /\ 1 \in DOMAIN npcs /\ db.npc_armor # {} /\ db.npc_skills # {}

(***************************************************************************)
(* One NPC with Vigor 7 whose Pace, Toughness, armour bonus, legacy edges, *)
(* managed edges and armor rows are edited, and audited after any of the   *)
(* edits.                                                                  *)
(***************************************************************************)
MaxDerivedNpcs == 1
MaxDerivedRows == 2
DerivedIds == 1..MaxDerivedNpcs

DerivedBodies ==
    << ("pace" :> VInt(8)), ("toughness" :> VInt(6)), ("toughness" :> VInt(7)),
       ("toughness_armor" :> VInt(2)),
       ("edges_json" :> VStr("[\"Brawny\",\"Fleet-Footed\"]")) >>
ArmorBodies ==
    << PlainBody.npc_armor, ("name" :> VStr("Mail")) @@ ("protection" :> VInt(1)) >>

DerivedAllowed == seq.npc_armor + seq.npc_edges < MaxDerivedRows

NextDerived ==
    \/ /\ seq.npcs < MaxDerivedNpcs
       /\ api_create_npc(("name" :> VStr("Ann")) @@ ("vigor" :> VInt(7)))
    \/ \E id \in DerivedIds, i \in DOMAIN DerivedBodies : api_update_npc(id, DerivedBodies[i])
    \/ \E id \in DerivedIds : DerivedAllowed /\ api_add_npc_edge(id, PlainBody.npc_edges)
    \/ \E id \in DerivedIds, i \in DOMAIN ArmorBodies :
          DerivedAllowed /\ api_add_armor(id, ArmorBodies[i])
    \/ \E id \in DerivedIds : selectNPC(id)

SpecDerived == Init /\ [][NextDerived]_vars

(***************************************************************************)
(* C20  Pace and Toughness audit.                                          *)
(***************************************************************************)
\* the levels of the audit's findings about one statistic, and their number
LevelsOf(stat) ==
    {audit.findings[i].level : i \in {j \in DOMAIN audit.findings : audit.findings[j].stat = stat}}
CountOf(stat) == Cardinality({j \in DOMAIN audit.findings : audit.findings[j].stat = stat})

\* the Toughness the rules derive for the audited NPC, and the largest
\* protection among its armor rows (0 without rows)
AuditedToughness ==
    2 + (Num(audit.n.npc.vigor) \div 2) + Num(audit.n.npc.toughness_armor)
LargestProtection ==
    Max({0} \cup {Num(audit.n.armor[i].protection) : i \in DOMAIN audit.n.armor})

\* the level the claim prescribes for a stored value, given the expected
\* value, the value an edge excuses and whether the NPC counts as having it
DerivedLevelFor(stored, expected, excused, edge) ==
    IF stored = VInt(expected) THEN "pass"
    ELSE IF edge /\ stored = VInt(excused) THEN "info"
    ELSE "warn"

\* the findings the claim prescribes, given the edge names the NPC counts as
\* having
DerivedAuditOver(names) ==
    /\ CountOf("Pace") = 1 /\ CountOf("Toughness") = 1
    /\ LevelsOf("Pace") =
          {DerivedLevelFor(audit.n.npc.pace, 6, 8, \E e \in names : Includes(e, "Fleet"))}
    /\ LevelsOf("Toughness") =
          {DerivedLevelFor(audit.n.npc.toughness, AuditedToughness, AuditedToughness + 1,
                           \E e \in names : Includes(e, "Brawny"))}
    /\ LevelsOf("Armour") \subseteq {"warn"}
    /\ CountOf("Armour") =
          IF LargestProtection # Num(audit.n.npc.toughness_armor) THEN 1 ELSE 0

\* C20 as the specification states it: the audit expects Pace 6 and Toughness
\* 2 + floor(vigor/2) + toughness_armor; each gets 'pass' exactly when the
\* stored value equals the expected one, 'info' for Pace 8 with a Fleet-Footed
\* edge or Toughness expected+1 with a Brawny edge, among the NPC's managed or
\* its legacy edges, and 'warn' otherwise; one more 'warn' exactly when the
\* largest protection among the armor rows differs from toughness_armor.
C20_AsStated ==
    audit.id # 0 => DerivedAuditOver(ManagedEdgeNames \cup LegacyEdgeNames)

\* C20, amended: as above, but the edges the audit looks at are the managed
\* edges when the NPC has any, and the legacy edge strings only when it has
\* none: a legacy Fleet-Footed or Brawny beside any managed edge is not seen.
C20_PaceToughnessAudit ==
    audit.id # 0 =>
        DerivedAuditOver(IF ManagedEdgeNames # {} THEN ManagedEdgeNames ELSE LegacyEdgeNames)

\* audited with Vigor 7, armour bonus 2, Toughness 7 (as expected), Pace 8,
\* Fleet-Footed among the legacy edges and only Block among the managed ones,
\* and one armor row of protection 2: Toughness passes, Pace warns and the
\* armour adds up
C20_Witness ==
    /\ audit.id # 0 /\ audit.n.npc.vigor = VInt(7) /\ audit.n.npc.toughness_armor = VInt(2)
    /\ audit.n.npc.toughness = VInt(7) /\ audit.n.npc.pace = VInt(8)
    /\ ManagedEdgeNames = {"Block"} /\ "Fleet-Footed" \in LegacyEdgeNames
    /\ {Num(audit.n.armor[i].protection) : i \in DOMAIN audit.n.armor} = {2}
    /\ LevelsOf("Toughness") = {"pass"} /\ LevelsOf("Pace") = {"warn"}
    /\ LevelsOf("Armour") = {}

(***************************************************************************)
(* The SWADE rules engine of the page and sections 2 to 7 of               *)
(* auditCharacter: the point budgets of a Novice, the edge requirements    *)
(* and the skills above their linked attribute.  SWADE.skillLinks and      *)
(* SWADE.edgeReqs are followed for the skills and edges the sheets below   *)
(* carry; an edge without an entry is a custom edge.                       *)
(***************************************************************************)
skillLinks ==
    [Athletics |-> "agility", Fighting |-> "agility", Shooting |-> "agility",
     Stealth |-> "agility", Notice |-> "smarts", Persuasion |-> "spirit"]
coreSkills == {"Athletics", "Common Knowledge", "Notice", "Persuasion", "Stealth"}
attrNames == << "agility", "smarts", "spirit", "strength", "vigor" >>
rankOrder == << "Novice", "Seasoned", "Veteran", "Heroic", "Legendary" >>

edgeReqs ==
    [Block |-> [rank |-> "Seasoned", attrs |-> <<>>, skills |-> [Fighting |-> 8]],
     Brawny |-> [rank |-> "", attrs |-> [strength |-> 6, vigor |-> 6], skills |-> <<>>],
     Luck |-> [rank |-> "", attrs |-> <<>>, skills |-> <<>>]]
    @@ ("Fleet-Footed" :> [rank |-> "", attrs |-> [agility |-> 6], skills |-> <<>>])

Min(a, b) == IF a <= b THEN a ELSE b

RECURSIVE SumTo(_, _)
SumTo(f, k) == IF k = 0 THEN 0 ELSE f[k] + SumTo(f, k - 1)

\* Array.indexOf: the position from 0, -1 when absent
indexOf(list, x) ==
    IF \E i \in DOMAIN list : list[i] = x
    THEN (CHOOSE i \in DOMAIN list : list[i] = x /\ \A j \in 1..(i - 1) : list[j] # x) - 1
    ELSE -1

\* `value || fallback` for a column holding a text
OrText(v, fallback) == IF v.t = "str" /\ v.s # "" THEN v.s ELSE fallback

rankMeetsMin(charRank, reqRank) ==
    reqRank = "" \/ indexOf(rankOrder, charRank) >= indexOf(rankOrder, reqRank)

\* dieSteps(v) = v > 0 ? (v - 4) / 2 : 0, counted here in half steps (twice
\* the value), as the quotient is not whole for an odd die
dieSteps(v) == IF v > 0 THEN v - 4 ELSE 0

\* str.replace(/\s*\(.*\)/, '').trim(): without its first parenthesis, the
\* blanks before it and everything up to its last closing parenthesis
RECURSIVE RStrip(_)
RStrip(s) == IF s # "" /\ SubSeq(s, Len(s), Len(s)) = " " THEN RStrip(SubSeq(s, 1, Len(s) - 1)) ELSE s
WithoutParens(s) ==
    LET opens == {i \in 1..Len(s) : SubSeq(s, i, i) = "(" /\
                      \E j \in (i + 1)..Len(s) : SubSeq(s, j, j) = ")"}
    IN  IF opens = {} THEN Strip(s)
        ELSE LET i == CHOOSE a \in opens : \A b \in opens : a <= b
                 j == Max({b \in 1..Len(s) : SubSeq(s, b, b) = ")"})
             IN  Strip(RStrip(SubSeq(s, 1, i - 1)) \o SubSeq(s, j + 1, Len(s)))

\* hindLegacy with every hindrance in it: the managed rows and the parsed
\* legacy strings together
hindBoth(n) ==
    [i \in DOMAIN n.hindrance_items |-> OrText(n.hindrance_items[i].severity, "")]
    \o [i \in DOMAIN n.hindrances.list |->
            IF Includes(n.hindrances.list[i], "Major") THEN "Major" ELSE "Minor"]

\* hindLegacy: the severities of the managed hindrances when there are any,
\* else those read off the legacy strings ('Major' when the string holds the
\* word, 'Minor' otherwise)
hindLegacy(n) ==
    IF n.hindrance_items # <<>>
    THEN [i \in DOMAIN n.hindrance_items |-> OrText(n.hindrance_items[i].severity, "")]
    ELSE [i \in DOMAIN n.hindrances.list |->
            IF Includes(n.hindrances.list[i], "Major") THEN "Major" ELSE "Minor"]

majorCount(n) == Cardinality({i \in DOMAIN hindLegacy(n) : hindLegacy(n)[i] = "Major"})
minorCount(n) == Cardinality({i \in DOMAIN hindLegacy(n) : hindLegacy(n)[i] = "Minor"})
hindPts(n) == (majorCount(n) * 2) + (minorCount(n) * 1)
effectiveHindPts(n) == Min(hindPts(n), 4)

\* n[attr] || 4
AttrOr4(n, attr) == IF Num(n.npc[attr]) # 0 THEN Num(n.npc[attr]) ELSE 4

\* attrPoints, in half steps
attrPoints(n) == SumTo([i \in DOMAIN attrNames |-> dieSteps(Num(n.npc[attrNames[i]]))], Len(attrNames))

\* the cost of one skill: a core skill has its d4 free, any other pays 1 for
\* it; each die from d6 up to the skill's costs 2 above the linked attribute
\* (d4 without a link) and 1 otherwise
skillCostOf(n, s) ==
    LET linkedDie == IF s.name.s \in DOMAIN skillLinks THEN AttrOr4(n, skillLinks[s.name.s]) ELSE 4
        dice == {d \in 6..Num(s.die) : d % 2 = 0}
    IN  (IF s.name.s \in coreSkills THEN 0 ELSE 1)
        + Cardinality(dice) + Cardinality({d \in dice : d > linkedDie})
skillCost(n) == SumTo([i \in DOMAIN n.skills |-> skillCostOf(n, n.skills[i])], Len(n.skills))

baseAttrBudget == 6
baseSkillBudget == 12
freeEdges == 1

Budget(level, category, stat) == [level |-> level, category |-> category, stat |-> stat]

\* sections 2 to 5b: nothing unless the rank is Novice and agility is above 0
auditBudgets(n) ==
    LET rank == OrText(n.npc.rank_guideline, "Novice")
        eff == effectiveHindPts(n)
        edgeCount == Len(edgesLegacy(n))
        \* attrOverBase * 2, which is the half steps over the base
        attrOverBase == Max({0, attrPoints(n) - (2 * baseAttrBudget)})
        skillOverBase == Max({0, skillCost(n) - baseSkillBudget})
        edgeOverBase == Max({0, edgeCount - freeEdges})
        minHindPtsNeeded == attrOverBase + skillOverBase + (edgeOverBase * 2)
    IN  IF ~(rank = "Novice" /\ Num(n.npc.agility) > 0) THEN << >>
        ELSE << Budget(IF attrPoints(n) <= 2 * (baseAttrBudget + (eff \div 2))
                       THEN "pass" ELSE "fail", "attributes", "Attribute points") >>
             \o (IF hindPts(n) > 4
                 THEN << Budget("info", "hindrances", "benefit capped") >> ELSE << >>)
             \o << Budget("pass", "hindrances", "Hindrance points"),
                   Budget(IF skillCost(n) <= baseSkillBudget + eff THEN "pass" ELSE "fail",
                          "skills", "Skill points"),
                   Budget(IF edgeCount <= freeEdges + (eff \div 2) THEN "pass" ELSE "fail",
                          "edges", "Edge count") >>
             \o (IF minHindPtsNeeded > eff
                 THEN << Budget("fail", "budget", "Hindrance budget") >>
                 ELSE IF minHindPtsNeeded > 0
                 THEN << Budget("pass", "budget", "Hindrance allocation") >> ELSE << >>)

\* section 6: one finding per edge the audit reads
edgeReqFinding(n, edgeName) ==
    LET name == WithoutParens(edgeName)
        rank == OrText(n.npc.rank_guideline, "Novice")
    IN  IF name \notin DOMAIN edgeReqs
        THEN IF name # "" /\ ~Includes(name, "Arcane Background")
             THEN << Budget("info", "edge-reqs", name) >> ELSE << >>
        ELSE LET req == edgeReqs[name]
                 met == /\ rankMeetsMin(rank, req.rank)
                        /\ \A a \in DOMAIN req.attrs : AttrOr4(n, a) >= req.attrs[a]
                        /\ \A k \in DOMAIN req.skills :
                              \E i \in DOMAIN n.skills :
                                 /\ n.skills[i].name.s = k
                                 /\ \A j \in 1..(i - 1) : n.skills[j].name.s # k
                                 /\ Num(n.skills[i].die) >= req.skills[k]
             IN  << Budget(IF met THEN "pass" ELSE "fail", "edge-reqs", name) >>

RECURSIVE auditEdgeReqs(_, _)
auditEdgeReqs(n, k) ==
    IF k = 0 THEN << >>
    ELSE auditEdgeReqs(n, k - 1) \o edgeReqFinding(n, edgesLegacy(n)[k])

\* section 7: a note for each skill above its linked attribute
RECURSIVE auditSkillLinks(_, _)
auditSkillLinks(n, k) ==
    IF k = 0 THEN << >>
    ELSE auditSkillLinks(n, k - 1)
         \o (IF /\ n.skills[k].name.s \in DOMAIN skillLinks
                /\ Num(n.skills[k].die) > AttrOr4(n, skillLinks[n.skills[k].name.s])
             THEN << Budget("info", "skills", "exceeds linked") >> ELSE << >>)

\* every finding of auditCharacter(n), sections 1 to 7 in order
FullBuildAudit(n) ==
    auditCharacter(n) \o auditBudgets(n) \o auditEdgeReqs(n, Len(edgesLegacy(n)))
    \o auditSkillLinks(n, Len(n.skills))

auditSummary(findings) ==
    IF \E i \in DOMAIN findings : findings[i].level = "fail" THEN "fail"
    ELSE IF \E i \in DOMAIN findings : findings[i].level = "warn" THEN "warn"
    ELSE "pass"

\* renderNPCDetail(n): the detail panel of n with the audit of n
renderNPCDetail(n) ==
    /\ audit' = [id |-> 1, n |-> n, findings |-> FullBuildAudit(n)]
    /\ UNCHANGED <<npcs, db, seq, resp, cat, files, page>>

(***************************************************************************)
(* Character sheets for the audit: every rank guideline, attribute dice    *)
(* whose steps run from under the base budget to over the largest one (an  *)
(* odd die among them), managed and legacy hindrances worth 0 to 6 points, *)
(* skills costing from 0 to 15 points and up to three managed edges.       *)
(***************************************************************************)
MaxBudgetHindrances == 3
MaxBudgetSkills == 3
MaxBudgetEdges == 3

SheetRanks == {Null, VStr(""), VStr("Novice"), VStr("Seasoned")}
SheetAgility == {0, 5, 6}
SheetSmarts == {4, 12}
SheetSpirit == {4, 6}
SheetStrength == {4, 6}

\* a list of k items going round a menu
Round(menu, k) == [i \in 1..k |-> menu[((i - 1) % Len(menu)) + 1]]

\* managed hindrances: some Majors, then some Minors
SheetHindrances ==
    {[i \in 1..(p[1] + p[2]) |->
         [name |-> VStr("Mean"), severity |-> IF i <= p[1] THEN VStr("Major") ELSE VStr("Minor")]] :
        p \in {q \in (0..MaxBudgetHindrances) \X (0..MaxBudgetHindrances) :
                  q[1] + q[2] <= MaxBudgetHindrances}}
SheetLegacyHindrances == {"[]", "[\"Cursed (Major - crew)\",\"grounded\"]"}

SkillMenu ==
    << [name |-> VStr("Fighting"), die |-> VInt(12)], [name |-> VStr("Notice"), die |-> VInt(8)],
       [name |-> VStr("Persuasion"), die |-> VInt(6)], [name |-> VStr("Shooting"), die |-> VInt(12)] >>
SheetSkills == {Round(SkillMenu, k) : k \in 0..MaxBudgetSkills}

EdgeMenu == << "Block", "Brawny", "Custom", "Luck" >>
SheetEdges == {[i \in 1..k |-> [name |-> VStr(Round(EdgeMenu, k)[i])]] : k \in 0..MaxBudgetEdges}
SheetLegacyEdges == {"[]", "[\"Brawny\",\"Fleet-Footed\"]"}

Sheet(rank, agility, smarts, spirit, strength, skills, hindrance_items, hindrances,
      edge_items, edges) ==
    [npc |-> ("rank_guideline" :> rank) @@ ("smarts" :> VInt(smarts))
             @@ ("spirit" :> VInt(spirit)) @@ ("strength" :> VInt(strength))
             @@ [NpcDefault EXCEPT !.name = VStr("Ann"), !.agility = VInt(agility),
                                   !.vigor = VInt(6), !.hindrances_json = VStr(hindrances),
                                   !.edges_json = VStr(edges)],
     edges |-> JsonLoads(VStr(edges)), hindrances |-> JsonLoads(VStr(hindrances)),
     gear |-> JsonLoads(VStr("[]")), powers |-> JsonLoads(VStr("[]")),
     skills |-> skills, weapons |-> << >>, armor |-> << >>, gear_items |-> << >>,
     hindrance_items |-> hindrance_items, edge_items |-> edge_items, power_items |-> << >>]

Sheets ==
    {Sheet(rank, agility, smarts, spirit, strength, skills, hindrance_items, hindrances,
           edge_items, edges) :
        rank \in SheetRanks, agility \in SheetAgility, smarts \in SheetSmarts,
        spirit \in SheetSpirit, strength \in SheetStrength, skills \in SheetSkills,
        hindrance_items \in SheetHindrances, hindrances \in SheetLegacyHindrances,
        edge_items \in SheetEdges, edges \in SheetLegacyEdges}

\* the page holds the data of one sheet, not yet rendered
InitBudget ==
    /\ InitDb
    /\ cat = Catalogues
    /\ files = [portraits |-> <<>>, backups |-> <<>>, clock |-> 1,
                database |-> [tables |-> {"npcs"} \cup Tables, portrait_path |-> TRUE]]
    /\ \E n \in Sheets : audit = [id |-> 0, n |-> n, findings |-> <<>>]
    /\ page = NoPage

NextBudget == renderNPCDetail(audit.n)

SpecBudget == InitBudget /\ [][NextBudget]_vars

(***************************************************************************)
(* C21  Point-budget audit.                                                *)
(***************************************************************************)
\* the audited sheet is budgeted: rank Novice or unset, agility above 0
Budgeted ==
    /\ audit.n.npc.rank_guideline \in {Null, VStr(""), VStr("Novice")}
    /\ Num(audit.n.npc.agility) > 0

\* twice the die-steps of the five attributes (d4 = 0, d6 = 1, ... per die)
AuditedAttrHalfSteps ==
    LET Steps(v) == IF Num(v) > 0 THEN Num(v) - 4 ELSE 0
    IN  Steps(audit.n.npc.agility) + Steps(audit.n.npc.smarts) + Steps(audit.n.npc.spirit)
        + Steps(audit.n.npc.strength) + Steps(audit.n.npc.vigor)

\* the severities of the audited sheet's managed hindrances, and those its
\* legacy strings name (none for a string naming neither)
ManagedSeverities ==
    [i \in DOMAIN audit.n.hindrance_items |-> audit.n.hindrance_items[i].severity.s]
LegacySeverities(untagged) ==
    [i \in DOMAIN audit.n.hindrances.list |->
        IF Includes(audit.n.hindrances.list[i], "Major") THEN "Major"
        ELSE IF Includes(audit.n.hindrances.list[i], "Minor") THEN "Minor" ELSE untagged]

\* the budget findings the claim prescribes, given the severities of the
\* hindrances and the number of edges that count
BudgetAuditOver(severities, edgeCount) ==
    LET pts == 2 * Cardinality({i \in DOMAIN severities : severities[i] = "Major"})
               + Cardinality({i \in DOMAIN severities : severities[i] = "Minor"})
        effective == IF pts > 4 THEN 4 ELSE pts
    IN  IF Budgeted
        THEN /\ CountOf("Attribute points") = 1 /\ CountOf("Skill points") = 1
             /\ CountOf("Edge count") = 1
             /\ LevelsOf("Attribute points") =
                   {IF AuditedAttrHalfSteps > 2 * (6 + (effective \div 2)) THEN "fail" ELSE "pass"}
             /\ LevelsOf("Skill points") =
                   {IF skillCost(audit.n) > 12 + effective THEN "fail" ELSE "pass"}
             /\ LevelsOf("Edge count") =
                   {IF edgeCount > 1 + (effective \div 2) THEN "fail" ELSE "pass"}
             /\ CountOf("benefit capped") = IF pts > 4 THEN 1 ELSE 0
        ELSE \A i \in DOMAIN audit.findings :
                /\ audit.findings[i].category \notin {"attributes", "hindrances", "edges", "budget"}
                /\ audit.findings[i].stat # "Skill points"

\* C21 as the specification states it: for a rank of Novice (or none) and
\* agility above 0, hindrance points are 2 per Major plus 1 per Minor of the
\* NPC's hindrances, managed or legacy, capped at 4 in effect; the attribute
\* check fails exactly when the die-steps exceed 6 + floor(effective/2), the
\* skill check exactly when the cost exceeds 12 + effective, the edge check
\* exactly when the NPC's edges, managed or legacy, number more than
\* 1 + floor(effective/2); otherwise there is no budget finding.
C21_AsStated ==
    audit.id # 0 =>
        BudgetAuditOver(ManagedSeverities \o LegacySeverities(""),
                        Len(audit.n.edge_items) + Len(audit.n.edges.list))

\* C21, amended: as above, but the hindrances that count are the managed ones
\* when the NPC has any and the legacy strings only when it has none (a
\* legacy string naming no severity being a Minor), and the edges that count
\* are the managed ones when it has any and the legacy ones otherwise.
C21_PointBudgetAudit ==
    audit.id # 0 =>
        BudgetAuditOver(IF audit.n.hindrance_items # <<>> THEN ManagedSeverities
                        ELSE LegacySeverities("Minor"),
                        IF audit.n.edge_items # <<>> THEN Len(audit.n.edge_items)
                        ELSE Len(audit.n.edges.list))

\* a Novice with agility d6, one managed Minor hindrance beside a legacy
\* Major, three managed edges and skills worth over 13 points: one effective
\* hindrance point, and the skill and edge checks fail
C21_Witness ==
    /\ audit.id # 0 /\ Budgeted /\ audit.n.npc.agility = VInt(6)
    /\ Len(audit.n.hindrance_items) = 1 /\ audit.n.hindrance_items[1].severity = VStr("Minor")
    /\ \E i \in DOMAIN audit.n.hindrances.list : Includes(audit.n.hindrances.list[i], "Major")
    /\ Len(audit.n.edge_items) = 3 /\ skillCost(audit.n) > 13
    /\ LevelsOf("Skill points") = {"fail"} /\ LevelsOf("Edge count") = {"fail"}
    /\ LevelsOf("Attribute points") = {"pass"}

(***************************************************************************)
(* The text of api_statblock, line by line, for the columns the model      *)
(* follows (description, smarts, spirit and strength are not among them).  *)
(* The dash of the source (U+2014) is written '-' and its multiplication   *)
(* sign 'x'.                                                               *)
(***************************************************************************)
\* die_str of app.py: 'd' and the value when it is above 0, a dash otherwise
app_die_str(v) == IF Positive(v) THEN "d" \o Shown(v) ELSE "-"

\* `value > 0` raises TypeError for None and for a text; `value and value > 0`
\* raises for a text that is not empty
Uncomparable(v) == v.t # "int"
UncomparableIfSet(v) == v.t = "str" /\ v.s # ""

\* the lines with every line kept
Unfiltered(lines, prefix) == lines

\* [l for l in lines if not l.startswith(prefix)]
Without(lines, prefix) == SelectSeq(lines, LAMBDA l : ~StartsWith(l, prefix))

hind_parts(rows) ==
    [i \in DOMAIN rows |->
        Shown(rows[i].name) \o (IF rows[i].severity = VStr("Major") THEN " (Major)" ELSE "")
        \o (IF Truthy(rows[i].notes) THEN " - " \o Shown(rows[i].notes) ELSE "")]
edge_parts(rows) ==
    [i \in DOMAIN rows |->
        Shown(rows[i].name)
        \o (IF Truthy(rows[i].notes) THEN " (" \o Shown(rows[i].notes) \o ")" ELSE "")]
gear_parts(rows) ==
    [i \in DOMAIN rows |->
        (IF Truthy(rows[i].quantity) /\ Positive(rows[i].quantity) /\ rows[i].quantity.n > 1
         THEN Shown(rows[i].name) \o " x" \o Shown(rows[i].quantity) ELSE Shown(rows[i].name))
        \o (IF Truthy(rows[i].notes) THEN " (" \o Shown(rows[i].notes) \o ")" ELSE "")]

StatblockText(npc_id) ==
    LET npc == npcs[npc_id]
        skills == Select(RowsOf("npc_skills", npc_id), ByName)
        managed_hindrances == Select(RowsOf("npc_hindrances", npc_id), BySeverityDescName)
        managed_edges == Select(RowsOf("npc_edges", npc_id), ByName)
        gear_items == Select(RowsOf("npc_gear", npc_id), ByName)
        armor_items == Select(RowsOf("npc_armor", npc_id), ByRowid)
        managed_powers == Select(RowsOf("npc_powers", npc_id), ByName)
        hasPP == Truthy(npc.power_points) /\ Positive(npc.power_points)
        legacyRead == {"hindrances_json", "edges_json"}
                        \cup (IF gear_items = <<>> THEN {"gear_json"} ELSE {})
                        \cup (IF hasPP /\ managed_powers = <<>> THEN {"powers_json"} ELSE {})
        raised ==
            \/ Uncomparable(npc.agility)
            \/ Positive(npc.agility) /\ UncomparableIfSet(npc.vigor)
            \/ \E i \in DOMAIN skills : UncomparableIfSet(skills[i].die)
            \/ \E i \in DOMAIN gear_items : UncomparableIfSet(gear_items[i].quantity)
            \/ UncomparableIfSet(npc.power_points)
        LegacyOr(f, label) ==
            IF LegacyLine(npc[f]).list # <<>>
            THEN << "**" \o label \o ":** " \o Joined(LegacyLine(npc[f]).list) >> ELSE << >>
        top ==
            << "**" \o Shown(npc.name) \o (IF npc.tier = VStr("Wild Card") THEN " (Wild Card)" ELSE "")
               \o "**" >>
            \o (IF Truthy(npc.quote) THEN << "*\"" \o Shown(npc.quote) \o "\"*" >> ELSE << >>)
            \o << "" >>
            \o (IF Positive(npc.agility)
                THEN << "**Attributes:** Agility " \o app_die_str(npc.agility)
                        \o ", Vigor " \o app_die_str(npc.vigor) >> ELSE << >>)
            \o (IF skills # <<>>
                THEN << "**Skills:** " \o Joined([i \in DOMAIN skills |->
                            Shown(skills[i].name) \o " " \o app_die_str(skills[i].die)]) >>
                ELSE << >>)
            \o (IF Positive(npc.agility)
                THEN << "**Pace:** " \o Shown(npc.pace) \o "; **Parry:** " \o Shown(npc.parry)
                        \o "; **Toughness:** "
                        \o (IF Truthy(npc.toughness_armor)
                            THEN Shown(npc.toughness) \o " (" \o Shown(npc.toughness_armor) \o ")"
                            ELSE Shown(npc.toughness)) >> ELSE << >>)
            \o LegacyOr("hindrances_json", "Hindrances") \o LegacyOr("edges_json", "Edges")
        hindered ==
            IF managed_hindrances # <<>>
            THEN Without(top, "**Hindrances:**")
                 \o << "**Hindrances:** " \o Joined(hind_parts(managed_hindrances)) >>
            ELSE top
        edged ==
            IF managed_edges # <<>>
            THEN Without(hindered, "**Edges:**")
                 \o << "**Edges:** " \o Joined(edge_parts(managed_edges)) >>
            ELSE hindered
        geared ==
            IF gear_items # <<>>
            THEN << "**Gear:** " \o Joined(gear_parts(gear_items)) >>
            ELSE LegacyOr("gear_json", "Gear")
        armoured ==
            IF armor_items # <<>>
            THEN << "**Armour:** " \o Joined([i \in DOMAIN armor_items |->
                        Shown(armor_items[i].name) \o " (+" \o Shown(armor_items[i].protection) \o ")"
                        \o (IF Truthy(armor_items[i].area_protected)
                            THEN " - " \o Shown(armor_items[i].area_protected) ELSE "")]) >>
            ELSE << >>
        powered ==
            IF ~hasPP THEN << >>
            ELSE << "**Powers (" \o Shown(npc.power_points) \o " PP):** "
                    \o (IF managed_powers # <<>>
                        THEN Joined([i \in DOMAIN managed_powers |->
                                Shown(managed_powers[i].name)
                                \o (IF Truthy(managed_powers[i].trapping)
                                    THEN " [" \o Shown(managed_powers[i].trapping) \o "]" ELSE "")])
                        ELSE Joined(LegacyLine(npc.powers_json).list)) >>
    IN  IF raised \/ \E f \in legacyRead : LegacyLine(npc[f]).kind = "error"
        THEN [raised |-> TRUE, lines |-> << >>]
        ELSE [raised |-> FALSE,
              lines |-> edged \o geared \o armoured \o powered
                        \o (IF Truthy(npc.tactics) THEN << "**Tactics:** " \o Shown(npc.tactics) >>
                            ELSE << >>)]

\* GET /api/npcs/<id>/statblock, with the lines of the answer
api_statblock_text(npc_id) ==
    /\ resp' = IF npc_id \notin DOMAIN npcs
               THEN Response("statblock_text", 404, npc_id, 0, <<>>, <<>>)
               ELSE IF StatblockText(npc_id).raised
               THEN Response("statblock_text", 500, npc_id, 0, <<>>, <<>>)
               ELSE Response("statblock_text", 200, npc_id, 0, <<>>,
                             [lines |-> StatblockText(npc_id).lines])
    /\ UNCHANGED <<npcs, db, seq, cat, audit, files, page>>

(***************************************************************************)
(* One NPC whose agility and legacy hindrances, edges and gear are edited, *)
(* to which managed hindrances, edges and gear are added, and whose stat   *)
(* block is asked for after any of these.                                  *)
(***************************************************************************)
MaxStatblockNpcs == 1
MaxStatblockRows == 2
StatblockIds == 1..MaxStatblockNpcs

StatblockBodies ==
    << ("agility" :> VInt(0)), ("agility" :> VInt(6)), ("agility" :> Null),
       ("hindrances_json" :> VStr("[\"Cursed (Major - crew)\",\"grounded\"]")),
       ("edges_json" :> VStr("[\"Block\"]")),
       ("gear_json" :> VStr("[\"Arcane Sword\"]")) >>

StatblockAllowed == seq.npc_hindrances + seq.npc_edges + seq.npc_gear < MaxStatblockRows

NextStatblock ==
    \/ seq.npcs < MaxStatblockNpcs /\ CreatePlain
    \/ \E id \in StatblockIds, i \in DOMAIN StatblockBodies :
          api_update_npc(id, StatblockBodies[i])
    \/ \E id \in StatblockIds : StatblockAllowed /\ api_add_npc_hindrance(id, PlainBody.npc_hindrances)
    \/ \E id \in StatblockIds : StatblockAllowed /\ api_add_npc_edge(id, PlainBody.npc_edges)
    \/ \E id \in StatblockIds : StatblockAllowed /\ api_add_gear(id, PlainBody.npc_gear)
    \/ \E id \in StatblockIds : api_statblock_text(id)

SpecStatblock == Init /\ [][NextStatblock]_vars

(***************************************************************************)
(* C22  Stat block prefers managed records.                                *)
(***************************************************************************)
\* the lines of the stat block answered that start with a label
Labelled(label) ==
    {resp.out.lines[i] : i \in {j \in DOMAIN resp.out.lines :
                                   StartsWith(resp.out.lines[j], "**" \o label \o ":**")}}
LabelCount(label) ==
    Cardinality({j \in DOMAIN resp.out.lines : StartsWith(resp.out.lines[j], "**" \o label \o ":**")})

\* the one line a label has: of the managed rows when there are any, of the
\* legacy items when there are only those, none otherwise
LineFor(label, managed_parts, legacy) ==
    IF managed_parts # <<>> THEN {"**" \o label \o ":** " \o Joined(managed_parts)}
    ELSE IF legacy # <<>> THEN {"**" \o label \o ":** " \o Joined(legacy)}
    ELSE {}

\* C22: a stat block answered holds at most one Hindrances, one Edges and one
\* Gear line, each built from the NPC's managed rows when it has any and from
\* the legacy JSON field only when it has none, and holds the Attributes and
\* the Pace/Parry/Toughness line exactly when agility is above 0.
C22_StatblockPrefersManaged ==
    (resp.op = "statblock_text" /\ resp.status = 200) =>
        LET npc == npcs[resp.id]
        IN  /\ \A label \in {"Hindrances", "Edges", "Gear"} : LabelCount(label) <= 1
            /\ Labelled("Hindrances") =
                  LineFor("Hindrances",
                          hind_parts(Select(RowsOf("npc_hindrances", resp.id), BySeverityDescName)),
                          JsonLoads(npc.hindrances_json).list)
            /\ Labelled("Edges") =
                  LineFor("Edges", edge_parts(Select(RowsOf("npc_edges", resp.id), ByName)),
                          JsonLoads(npc.edges_json).list)
            /\ Labelled("Gear") =
                  LineFor("Gear", gear_parts(Select(RowsOf("npc_gear", resp.id), ByName)),
                          JsonLoads(npc.gear_json).list)
            /\ LabelCount("Attributes") = (IF Positive(npc.agility) THEN 1 ELSE 0)
            /\ LabelCount("Pace") = (IF Positive(npc.agility) THEN 1 ELSE 0)

\* the stat block of an NPC with agility d6, a managed hindrance beside two
\* legacy ones, legacy edges only and a managed gear item beside a legacy one
C22_Witness ==
    /\ resp.op = "statblock_text" /\ resp.status = 200
    /\ npcs[resp.id].agility = VInt(6)
    /\ RowsOf("npc_hindrances", resp.id) # {} /\ JsonLoads(npcs[resp.id].hindrances_json).list # <<>>
    /\ RowsOf("npc_edges", resp.id) = {} /\ JsonLoads(npcs[resp.id].edges_json).list # <<>>
    /\ RowsOf("npc_gear", resp.id) # {} /\ JsonLoads(npcs[resp.id].gear_json).list # <<>>
    /\ Labelled("Hindrances") = {"**Hindrances:** Mean (Major)"}
    /\ Labelled("Edges") = {"**Edges:** Block"}
    /\ Labelled("Gear") = {"**Gear:** Rope"}
    /\ LabelCount("Attributes") = 1

(***************************************************************************)
(* C23  Migration never duplicates.  A successful api_migration_execute    *)
(* inserts no managed hindrance, edge or power whose (npc_id, name) a row   *)
(* already has, nor two rows with the same (npc_id, name), also when a     *)
(* name is repeated inside one legacy list; every legacy item it skips     *)
(* adds one warning, and migrated_items is the number of rows inserted.    *)
(***************************************************************************)
ManagedTables == {"npc_hindrances", "npc_edges", "npc_powers"}

C23_MigrationNeverDuplicates ==
    [][(resp'.op = "migration_execute" /\ resp'.status = 200) =>
          LET Inserted(t) == db'[t] \ db[t]
              inserted == Cardinality(Inserted("npc_hindrances"))
                          + Cardinality(Inserted("npc_edges"))
                          + Cardinality(Inserted("npc_powers"))
          IN  /\ \A t \in ManagedTables : \A r \in Inserted(t) :
                     /\ ~\E o \in db[t] : o.npc_id = r.npc_id /\ o.name = r.name
                     /\ \A q \in Inserted(t) :
                            (q.npc_id = r.npc_id /\ q.name = r.name) => q = r
              /\ \A t \in Tables : db[t] \subseteq db'[t]
              /\ resp'.out.migrated_items = inserted
              /\ resp'.out.warnings = MigrationPreview.out.total_items - inserted]_vars

\* the migration of the one NPC Bob, whose legacy hindrances name Cursed
\* twice: two rows inserted, one item skipped with a warning, one Cursed row
C23_Witness ==
    /\ resp.op = "migration_execute" /\ resp.status = 200
    /\ resp.out.migrated_items = 2 /\ resp.out.warnings = 1
    /\ \E id \in DOMAIN npcs : npcs[id].name = VStr("Bob")
    /\ Cardinality({r \in db.npc_hindrances : r.name = VStr("Cursed")}) = 1
    /\ Cardinality(db.npc_hindrances) = 2

(***************************************************************************)
(* GET /api/export/all, the request behind the button 'Export All FG-Ready *)
(* NPCs' of the status view (exportRegionFG).  The region column is not    *)
(* followed, so ORDER BY region, name is the order of the names.  An entry *)
(* is kept as the NPC it is of and the name of its element.                *)
(***************************************************************************)
api_export_all ==
    LET npcs_ == Select({[id |-> id, name |-> npcs[id].name] :
                            id \in {i \in DOMAIN npcs : npcs[i].stat_block_complete = VInt(1)}},
                        ByName)
        entries == [i \in DOMAIN npcs_ |->
                       [npc |-> npcs_[i].id, element |-> FgXmlText(npcs_[i].id).id]]
    IN  /\ resp' = IF \E i \in DOMAIN npcs_ : FgXmlText(npcs_[i].id).raised
                   THEN Response("export_all", 500, 0, 0, <<>>, <<>>)
                   ELSE Response("export_all", 200, 0, 0, <<>>,
                                 [xml |-> entries, count |-> Len(npcs_)])
        /\ UNCHANGED <<npcs, db, seq, cat, audit, files, page>>

(***************************************************************************)
(* NPCs created and edited with either production flag set or not, and the *)
(* export of all of them asked for.                                        *)
(***************************************************************************)
MaxExportNpcs == 2
ExportIds == 1..MaxExportNpcs

ExportBodies ==
    << ("name" :> VStr("Ann")),
       ("name" :> VStr("Bob")) @@ ("stat_block_complete" :> VInt(1)),
       ("name" :> VStr("Ann")) @@ ("fg_export_ready" :> VInt(1)),
       ("name" :> VStr("Bob")) @@ ("stat_block_complete" :> VInt(1))
           @@ ("fg_export_ready" :> VInt(1)) >>
FlagBodies ==
    << ("stat_block_complete" :> VInt(1)), ("stat_block_complete" :> VInt(0)),
       ("fg_export_ready" :> VInt(1)), ("fg_export_ready" :> VInt(0)),
       ("agility" :> VStr("x")) >>

NextExport ==
    \/ \E i \in DOMAIN ExportBodies :
          /\ NextRowid("npcs", DOMAIN npcs) <= MaxExportNpcs
          /\ api_create_npc(ExportBodies[i])
    \/ \E id \in ExportIds, i \in DOMAIN FlagBodies : api_update_npc(id, FlagBodies[i])
    \/ api_export_all

SpecExport == Init /\ [][NextExport]_vars

(***************************************************************************)
(* C24  Export of FG-ready NPCs.  An export of all NPCs that is answered   *)
(* holds entries for exactly the NPCs whose fg_export_ready flag is set,   *)
(* one each, and the count it reports is the number of entries.            *)
(***************************************************************************)
C24_ExportsFgReady ==
    (resp.op = "export_all" /\ resp.status = 200) =>
        /\ {resp.out.xml[i].npc : i \in DOMAIN resp.out.xml}
              = {id \in DOMAIN npcs : npcs[id].fg_export_ready = VInt(1)}
        /\ \A i, j \in DOMAIN resp.out.xml : resp.out.xml[i].npc = resp.out.xml[j].npc => i = j
        /\ resp.out.count = Len(resp.out.xml)

(***************************************************************************)
(* DELETE /api/npcs/<npc_id>/legacy_gear/<index>.  The route's int         *)
(* converter takes no sign, so index is never negative.                    *)
(***************************************************************************)
\* the list after items.pop() without an index: the last item goes
PoppedLast(items, index) == SubSeq(items, 1, Len(items) - 1)

\* the list after items.pop(index), index counted from 0
Popped(items, index) == SubSeq(items, 1, index) \o SubSeq(items, index + 2, Len(items))

api_delete_legacy_gear(npc_id, index) ==
    LET req == [index |-> index]
    IN  IF npc_id \notin DOMAIN npcs \/ ~Truthy(npcs[npc_id].gear_json)
        THEN /\ resp' = Response("delete_legacy_gear", 404, npc_id, 0, req, <<>>)
             /\ UNCHANGED <<npcs, db, seq, cat, audit, files, page>>
        ELSE LET items == JsonLoads(npcs[npc_id].gear_json)
             IN  IF items.kind # "list" THEN Fails("delete_legacy_gear", npc_id, 0, req)
                 ELSE IF index < 0 \/ index >= Len(items.list)
                 THEN /\ resp' = Response("delete_legacy_gear", 400, npc_id, 0, req, <<>>)
                      /\ UNCHANGED <<npcs, db, seq, cat, audit, files, page>>
                 ELSE /\ npcs' = [npcs EXCEPT ![npc_id].gear_json =
                                       VStr(JsonDumps(Popped(items.list, index)))]
                      /\ resp' = Response("delete_legacy_gear", 200, npc_id, 0, req,
                                          [removed |-> items.list[index + 1],
                                           remaining |-> Len(Popped(items.list, index))])
                      /\ UNCHANGED <<db, seq, cat, audit, files, page>>

(***************************************************************************)
(* NPCs saved with three legacy gear items, with none, and with a          *)
(* gear_json that is NULL, the empty text, a number or no JSON; items      *)
(* deleted at every index up to one past the longest list, also of an NPC  *)
(* that does not exist.                                                    *)
(***************************************************************************)
MaxGearNpcs == 1
MaxGearIndex == 3

GearBodies ==
    << ("name" :> VStr("Ann")) @@ ("gear_json" :> LegacyText("g3")),
       ("name" :> VStr("Bob")) >>
GearJsonBodies ==
    << ("gear_json" :> LegacyText("g3")), ("gear_json" :> Null), ("gear_json" :> VStr("")),
       ("gear_json" :> VStr("5")), ("gear_json" :> VStr("oops")) >>

NextGear ==
    \/ \E i \in DOMAIN GearBodies :
          /\ NextRowid("npcs", DOMAIN npcs) <= MaxGearNpcs
          /\ api_create_npc(GearBodies[i])
    \/ \E id \in 1..MaxGearNpcs, i \in DOMAIN GearJsonBodies :
          api_update_npc(id, GearJsonBodies[i])
    \/ \E id \in 1..(MaxGearNpcs + 1), index \in 0..MaxGearIndex :
          api_delete_legacy_gear(id, index)

SpecGear == Init /\ [][NextGear]_vars

(***************************************************************************)
(* C25  Legacy gear delete by index.                                       *)
(***************************************************************************)
\* what the claim prescribes for a request that was answered, given whether
\* the NPC's gear_json counts as empty; nothing is prescribed for a
\* gear_json that holds no JSON list
LegacyGearDelete(empty) ==
    LET id == resp'.id
        index == resp'.req.index
        items == JsonLoads(npcs[id].gear_json).list
    IN  IF id \notin DOMAIN npcs \/ empty
        THEN resp'.status = 404 /\ npcs' = npcs
        ELSE IF JsonLoads(npcs[id].gear_json).kind # "list" THEN TRUE
        ELSE IF index < 0 \/ index >= Len(items)
        THEN resp'.status = 400 /\ npcs' = npcs
        ELSE /\ resp'.status = 200
             /\ resp'.out.remaining = Len(items) - 1
             /\ resp'.out.removed = items[index + 1]
             /\ JsonLoads(npcs'[id].gear_json).kind = "list"
             /\ LET left == JsonLoads(npcs'[id].gear_json).list
                IN  /\ Len(left) = Len(items) - 1
                    /\ \A k \in 1..Len(left) :
                           left[k] = IF k <= index THEN items[k] ELSE items[k + 1]
             /\ npcs' = [npcs EXCEPT ![id].gear_json = npcs'[id].gear_json]

\* C25 as the specification states it: with 0 <= i < length the request
\* removes exactly item i of gear_json, keeps the others in their order and
\* reports remaining = length - 1; an index out of range gives 400, a missing
\* NPC or an empty gear_json (NULL, the empty text or the empty list) gives
\* 404, and in both error cases gear_json is unchanged.
C25_AsStated ==
    [][resp'.op = "delete_legacy_gear" =>
          LegacyGearDelete(/\ resp'.id \in DOMAIN npcs
                           /\ \/ ~Truthy(npcs[resp'.id].gear_json)
                              \/ npcs[resp'.id].gear_json = VStr("[]"))]_vars

\* C25, amended: as above, but the gear_json that gives 404 is NULL or the
\* empty text; the empty list '[]' gives 400, every index being out of range.
C25_LegacyGearDelete ==
    [][resp'.op = "delete_legacy_gear" =>
          LegacyGearDelete(/\ resp'.id \in DOMAIN npcs
                           /\ ~Truthy(npcs[resp'.id].gear_json))]_vars

\* the middle one of three items has been deleted: the first and the last are left
C25_Witness ==
    /\ resp.op = "delete_legacy_gear" /\ resp.status = 200 /\ resp.req.index = 1
    /\ resp.out.removed = "Axe" /\ resp.out.remaining = 2
    /\ npcs[resp.id].gear_json = VStr("[\"Rope\", \"Mail\"]")

(***************************************************************************)
(* C26  Referential integrity.  In every reachable state every row of a    *)
(* child table (npc_armor, npc_gear, npc_hindrances, npc_edges,            *)
(* npc_powers, npc_skills, npc_weapons) has an npc_id that refers to an    *)
(* existing NPC; and an add-child request for an NPC id that does not      *)
(* exist is rejected (the INSERT raises, the handler answers an error      *)
(* status) and inserts nothing.                                            *)
(***************************************************************************)
AddOps == {"add_skill", "add_weapon", "add_armor", "add_gear",
           "add_hindrance", "add_edge", "add_power"}

\* every child row belongs to an NPC that exists
ChildrenOwned == \A t \in Tables : \A r \in db[t] : r.npc_id \in DOMAIN npcs

C26_ReferentialIntegrity ==
    /\ []ChildrenOwned
    /\ [][(resp'.op \in AddOps /\ resp'.id \notin DOMAIN npcs) =>
             /\ resp'.status >= 400
             /\ db' = db /\ npcs' = npcs /\ seq' = seq]_vars

\* an add-child request for the deleted NPC 1 was refused while NPC 2 keeps
\* the row it was given
C26_Witness ==
    /\ resp.op \in AddOps /\ resp.id = 1 /\ resp.status = 500
    /\ DOMAIN npcs = {2} /\ seq.npcs = 2
    /\ Cardinality(UNION {RowsOf(t, 2) : t \in Tables}) = 1
    /\ \A t \in Tables : RowsOf(t, 1) = {}

(***************************************************************************)
(* C27  Migration is idempotent.  Running api_migration_execute twice in   *)
(* a row leaves the database in the same state as running it once, and     *)
(* the second run reports migrated_items = 0 and migrated_npcs = 0.        *)
(***************************************************************************)
\* a run that follows a run, with no request in between
TwoRuns == resp.op = "migration_execute" /\ resp'.op = "migration_execute"

FgListed(npc_id, tag) ==
    LET open == "        <" \o tag \o " type=\"string\">"
        close == "</" \o tag \o ">"
        hits == SelectSeq(FgXmlText(npc_id).lines, LAMBDA l : StartsWith(l, open))
    IN  IF hits = <<>> THEN ""
        ELSE SubSeq(hits[1], Len(open) + 1, Len(hits[1]) - Len(close))

\* the text after the label of the stat block line that starts with it, the
\* empty text when the stat block has no such line
StatblockListed(npc_id, label) ==
    LET hits == SelectSeq(StatblockText(npc_id).lines, LAMBDA l : StartsWith(l, label))
    IN  IF hits = <<>> THEN "" ELSE SubSeq(hits[1], Len(label) + 1, Len(hits[1]))

\* both exports of the NPC are answered
Exported(npc_id) == ~FgXmlText(npc_id).raised /\ ~StatblockText(npc_id).raised

C28_ExportersAgree ==
    \A id \in DOMAIN npcs :
        Exported(id) =>
            /\ FgListed(id, "edges") = escape(StatblockListed(id, "**Edges:** "))
            /\ FgListed(id, "hindrances") = escape(StatblockListed(id, "**Hindrances:** "))
            /\ FgListed(id, "gear") = escape(StatblockListed(id, "**Gear:** "))
            /\ FgListed(id, "powers") =
                  escape(StatblockListed(id, "**Powers (" \o Shown(npcs[id].power_points)
                                                 \o " PP):** "))

(***************************************************************************)
(* The page in the browser.  selectNPC(id) sends GET /api/npcs/<id> and    *)
(* is suspended at its `await`; when the answer has arrived it is resumed  *)
(* and sets currentNPC and the detail panel.  Nothing orders the answers   *)
(* of several calls: each call is resumed when its own answer arrives.     *)
(* deleteNPC(id) is suspended the same way on its DELETE.                  *)
(***************************************************************************)
MaxSelectNpcs == 2
MaxSelectCalls == 3
SelectIds == 1..MaxSelectNpcs

\* currentNPC after `currentNPC = data` with the {error: ...} object of a 404
ErrorObject == -1

Selects == {r \in page.flight : r.op = "select"}
Deletes == {r \in page.flight : r.op = "delete"}

\* selectNPC(id) up to its await: the request is sent
selectNPC_fetch(id) ==
    /\ page' = [page EXCEPT !.calls = @ + 1, !.latest = id,
                            !.flight = @ \cup {[k |-> page.calls + 1, op |-> "select", id |-> id,
                                                served |-> FALSE, answer |-> NoResponse]}]
    /\ UNCHANGED <<npcs, db, seq, resp, cat, audit, files>>

\* the server handles the GET of the call r: api_get_npc on the database as it is now
api_get_npc_answer(r) ==
    /\ r.op = "select" /\ ~r.served
    /\ resp' = GetNpc(r.id)
    /\ page' = [page EXCEPT !.flight = (@ \ {r})
                                \cup {[r EXCEPT !.served = TRUE, !.answer = GetNpc(r.id)]}]
    /\ UNCHANGED <<npcs, db, seq, cat, audit, files>>

\* selectNPC after its await: currentNPC = data; renderNPCDetail(data).  An
\* answer that is no JSON (a 500 page) makes r.json() throw: nothing is set.
\* The {error: 'Not found'} of a 404 becomes currentNPC, and renderNPCDetail
\* throws on it, which leaves the panel as it was.
selectNPC_resume(r) ==
    /\ r.op = "select" /\ r.served
    /\ page' = [page EXCEPT !.flight = @ \ {r},
                            !.currentNPC = IF r.answer.status = 200 THEN r.id
                                           ELSE IF r.answer.status = 404 THEN ErrorObject
                                           ELSE @,
                            !.panel = IF r.answer.status = 200 THEN r.id ELSE @]
    /\ audit' = IF r.answer.status = 200
                THEN [id |-> r.id, n |-> r.answer.out, findings |-> auditCharacter(r.answer.out)]
                ELSE audit
    /\ UNCHANGED <<npcs, db, seq, resp, cat, files>>

\* closeWorkspace(): `if (currentNPC) selectNPC(currentNPC.id)`.  With the
\* error object as currentNPC the id is undefined, the URL matches no route
\* and the answer is no JSON: the call ends at its await.
closeWorkspace ==
    /\ page.currentNPC > 0
    /\ selectNPC_fetch(page.currentNPC)

\* deleteNPC(id), confirmed, up to its await: the DELETE is sent.  The button
\* belongs to the detail panel of the NPC.
deleteNPC_fetch(id) ==
    /\ page.panel = id
    /\ id \notin {r.id : r \in Deletes}
    /\ page' = [page EXCEPT !.flight = @ \cup {[k |-> 0, op |-> "delete", id |-> id,
                                                served |-> FALSE, answer |-> NoResponse]}]
    /\ UNCHANGED <<npcs, db, seq, resp, cat, audit, files>>

\* the server handles the DELETE of the call r
api_delete_npc_answer(r) ==
    /\ r.op = "delete" /\ r.id \in DOMAIN npcs
    /\ api_delete_npc(r.id)

\* deleteNPC after its await: currentNPC = null and the panel back to its
\* empty state (the list is then loaded again)
deleteNPC_resume(r) ==
    /\ r.op = "delete" /\ r.id \notin DOMAIN npcs
    /\ page' = [page EXCEPT !.flight = @ \ {r}, !.currentNPC = 0, !.panel = 0,
                            !.latest = 0, !.deleted = @ \cup {r.id}]
    /\ UNCHANGED <<npcs, db, seq, resp, cat, audit, files>>

NextSelect ==
    \/ seq.npcs < MaxSelectNpcs /\ CreatePlain
    \/ \E id \in DOMAIN npcs : page.calls < MaxSelectCalls /\ selectNPC_fetch(id)
    \/ \E r \in page.flight : api_get_npc_answer(r)
    \/ \E r \in page.flight : selectNPC_resume(r)
    \/ page.calls < MaxSelectCalls /\ closeWorkspace
    \/ \E id \in DOMAIN npcs : deleteNPC_fetch(id)
    \/ \E r \in page.flight : api_delete_npc_answer(r)
    \/ \E r \in page.flight : deleteNPC_resume(r)

SpecSelect == Init /\ [][NextSelect]_vars

(***************************************************************************)
(* C29  Selection survives out-of-order responses.  When several selectNPC *)
(* requests are in flight at once, after all of their responses have       *)
(* arrived currentNPC and the rendered detail panel belong to the NPC of   *)
(* the most recent selectNPC call, whatever order the responses arrived    *)
(* in; and after deleteNPC completes, a response still pending for the     *)
(* deleted NPC does not make it currentNPC again.                          *)
(***************************************************************************)
C29_SelectionSurvivesReordering ==
    /\ (Selects = {} /\ page.latest \in DOMAIN npcs) =>
           (page.currentNPC = page.latest /\ page.panel = page.latest)
    /\ page.currentNPC \notin page.deleted
    /\ page.panel \notin page.deleted

(***************************************************************************)
(* C30  The combined hindrance-spend check subsumes the individual ones.   *)
(* For every Novice NPC, whenever the attribute, skill or edge budget      *)
(* check of auditCharacter reports 'fail', the combined check (2 x extra   *)
(* attribute steps + extra skill points + 2 x extra edges against the      *)
(* effective hindrance points) also reports 'fail'; so a build whose       *)
(* combined check passes has no failing individual budget check, and       *)
(* auditSummary reports 'fail' whenever any finding is a 'fail'.           *)
(***************************************************************************)
IndividualChecks == {"Attribute points", "Skill points", "Edge count"}

\* the summary of the audit shown is 'fail' exactly when a finding is
SummaryFollowsFindings ==
    (\E i \in DOMAIN audit.findings : audit.findings[i].level = "fail")
        <=> auditSummary(audit.findings) = "fail"

C30_CombinedSubsumesIndividual ==
    audit.id # 0 =>
        /\ Budgeted =>
              ((\E stat \in IndividualChecks : "fail" \in LevelsOf(stat))
                  => LevelsOf("Hindrance budget") = {"fail"})
        /\ SummaryFollowsFindings

====
